---- MODULE Spec2Model ----
(***************************************************************************)
(* A model of the PicoCalc FAT32 driver (src/drivers/fat32.c).             *)
(*                                                                         *)
(* The card is a function from LBA to sector.  A sector is a record        *)
(* [k, c]: k says how the bytes were last written ("fat": 32-bit FAT       *)
(* words, "dir": 32-byte directory slots, "raw": file bytes, "bpb": the    *)
(* boot sector) and c is the sequence of those units.                      *)
(*                                                                         *)
(* Every driver function is an operator that takes the block device        *)
(* dev = [b |-> blocks, n |-> block I/Os done so far in this call] and     *)
(* returns a record with the error code err, the device dev after the      *)
(* call and the function's outputs.  Loops are RECURSIVE operators.        *)
(***************************************************************************)
EXTENDS Integers, Sequences, FiniteSets, TLC

VARIABLES
    card_present,        \* sd_card_present()
    blocks,              \* the card's sectors, by LBA
    fat32_mounted,       \* fat32.c:25
    mount_status,        \* fat32.c:26
    fat32_initialised,   \* fat32.c:27
    boot_sector,         \* fat32.c:30, the BPB fields the driver uses
    volume_start_block,  \* fat32.c:31
    first_data_sector,   \* fat32.c:32
    data_region_sectors, \* fat32.c:33
    cluster_count,       \* fat32.c:34
    bytes_per_cluster,   \* fat32.c:35
    current_dir_cluster, \* fat32.c:37
    file,                \* the caller's fat32_file_t
    dir,                 \* the caller's fat32_dir_t
    op,                  \* the last call made: [name, ...arguments]
    ret,                 \* what it returned
    out,                 \* what it wrote to its output parameters
    io,                  \* the number of block reads and writes it made
    mon,                 \* history of calls the properties refer to
    pc,                  \* position of the in-flight fat32_file_read (hotplug)
    rd                   \* locals of the in-flight fat32_file_read (hotplug)

vars == <<card_present, blocks, fat32_mounted, mount_status,
          fat32_initialised, boot_sector,
          volume_start_block, first_data_sector, data_region_sectors,
          cluster_count, bytes_per_cluster, current_dir_cluster,
          file, dir, op, ret, out, io, mon, pc, rd>>

geometry == <<boot_sector, volume_start_block, first_data_sector,
              data_region_sectors, cluster_count, bytes_per_cluster>>

statics == <<fat32_mounted, mount_status, geometry, current_dir_cluster>>

-----------------------------------------------------------------------------
(* Bounds of the model.                                                    *)

\* 32-byte directory slots per sector (the driver's sector holds 16).
SlotsPerSector == 2

\* Data clusters of the modelled volumes.
ClusterCount == 8

-----------------------------------------------------------------------------
(* Constants of fat32.h.                                                   *)

FAT32_DIR_ENTRY_SIZE == 32
FAT32_SECTOR_SIZE == SlotsPerSector * FAT32_DIR_ENTRY_SIZE
FAT32_FAT_ENTRY_SIZE == 4
FAT32_FAT_ENTRY_FREE == 0
FAT32_FAT_ENTRY_EOC == 268435448
FAT32_DIR_ENTRY_END_MARKER == 0
FAT32_DIR_ENTRY_FREE == 229
FAT32_DIR_LFN_PART_SIZE == 13
FAT32_ATTR_VOLUME_ID == 8
FAT32_ATTR_DIRECTORY == 16
FAT32_ATTR_ARCHIVE == 32
FAT32_ATTR_LONG_NAME == 15
FAT32_MAX_FILENAME_LEN == 255
FAT32_MAX_PATH_LEN == 260
MAX_LFN_PART == 20

FAT32_OK == "OK"
FAT32_ERROR_NO_CARD == "NoCard"
FAT32_ERROR_INIT_FAILED == "InitFailed"
FAT32_ERROR_READ_FAILED == "ReadFailed"
FAT32_ERROR_WRITE_FAILED == "WriteFailed"
FAT32_ERROR_INVALID_FORMAT == "InvalidFormat"
FAT32_ERROR_FILE_NOT_FOUND == "FileNotFound"
FAT32_ERROR_INVALID_PATH == "InvalidPath"
FAT32_ERROR_NOT_A_DIRECTORY == "NotADirectory"
FAT32_ERROR_NOT_A_FILE == "NotAFile"
FAT32_ERROR_INVALID_POSITION == "InvalidPosition"
FAT32_ERROR_DIR_NOT_EMPTY == "DirNotEmpty"
FAT32_ERROR_DISK_FULL == "DiskFull"
FAT32_ERROR_FILE_EXISTS == "FileExists"
FAT32_ERROR_INVALID_PARAMETER == "InvalidParameter"

-----------------------------------------------------------------------------
(* Machine arithmetic.                                                     *)

TwoTo8 == 256
TwoTo16 == 65536

\* The range of the model's uint32_t: 2^30, the largest power of two whose
\* sums stay inside the integers of the model checker.  Arithmetic that
\* wraps in the driver wraps here.
WordRange == 1073741824

U8(x) == x % TwoTo8
U32(x) == x % WordRange

\* The word made of the little-endian 16-bit halves lo and hi.
Word(lo, hi) == lo + TwoTo16 * (hi % (WordRange \div TwoTo16))

\* The value of the one-point function f: Let([x \in {e} |-> b]) is b with
\* x standing for the value of e.
Let(f) == f[CHOOSE x \in DOMAIN f : TRUE]

Min(a, b) == IF a < b THEN a ELSE b
Max(a, b) == IF a > b THEN a ELSE b

RECURSIVE BitAnd(_, _)
BitAnd(a, b) ==
    IF a = 0 \/ b = 0 THEN 0
    ELSE (a % 2) * (b % 2) + 2 * BitAnd(a \div 2, b \div 2)

-----------------------------------------------------------------------------
(* Sectors.                                                                *)

FatEntriesPerSector == FAT32_SECTOR_SIZE \div FAT32_FAT_ENTRY_SIZE

\* A directory slot: b0 is its first byte (shortname[0] of an 8.3 slot, seq
\* of an LFN slot), name the 11 shortname bytes or the 13 LFN code units.
Slot(b0, attr, name, chk, clus, size) ==
    [b0 |-> b0, attr |-> attr, name |-> name, chk |-> chk, clus |-> clus,
     size |-> size]

ZeroSlot == Slot(0, 0, <<>>, 0, 0, 0)

ZeroDirSector == [k |-> "dir", c |-> [i \in 1..SlotsPerSector |-> ZeroSlot]]
ZeroRawSector == [k |-> "raw", c |-> [i \in 1..FAT32_SECTOR_SIZE |-> 0]]

\* The byte a file read finds where no file byte was ever written.
StaleByte == 0

\* The bytes of a sector as file data.
AsRaw(sec) ==
    IF sec.k = "raw" THEN sec.c
    ELSE [i \in 1..FAT32_SECTOR_SIZE |-> StaleByte]

\* The bytes of a sector as directory slots.  A sector of file bytes reads
\* as 8.3 slots: first byte, attribute byte at offset 11.
AsDir(sec) ==
    IF sec.k = "dir" THEN sec.c
    ELSE IF sec.k = "raw"
    THEN [i \in 1..SlotsPerSector |->
            LET o == (i - 1) * FAT32_DIR_ENTRY_SIZE
            IN  Slot(sec.c[o + 1], sec.c[o + 12],
                     SubSeq(sec.c, o + 1, o + 11), sec.c[o + 14],
                     Word(sec.c[o + 27] + TwoTo8 * sec.c[o + 28],
                          sec.c[o + 21] + TwoTo8 * sec.c[o + 22]),
                     Word(sec.c[o + 29] + TwoTo8 * sec.c[o + 30],
                          sec.c[o + 31] + TwoTo8 * sec.c[o + 32]))]
    ELSE [i \in 1..SlotsPerSector |-> ZeroSlot]

\* The 32-bit words of a sector as FAT entries.
AsFat(sec) ==
    IF sec.k = "fat" THEN sec.c
    ELSE [i \in 1..FatEntriesPerSector |-> 0]

\* The bytes of a sector as an FSInfo sector: sigs says that the three
\* signatures are there.  No other sector of the model carries them.
AsInfo(sec) ==
    IF sec.k = "fsi" THEN sec.c ELSE [sigs |-> FALSE, free_count |-> 0]

-----------------------------------------------------------------------------
(* The block device (sdcard.c): 512-byte block reads and writes.  A read   *)
(* or write outside the card fails.  The field n counts the block          *)
(* transfers of a call and e keeps the code of the first one that failed.  *)

Dev(b) == [b |-> b, n |-> 0, e |-> FAT32_OK]

FirstError(dev, err) == IF dev.e = FAT32_OK THEN err ELSE dev.e

sd_read_block(dev, lba) ==
    IF lba \in DOMAIN dev.b
    THEN [err |-> FAT32_OK, dev |-> [dev EXCEPT !.n = @ + 1],
          buf |-> dev.b[lba]]
    ELSE [err |-> FAT32_ERROR_READ_FAILED,
          dev |-> [dev EXCEPT !.n = @ + 1,
                              !.e = FirstError(dev, FAT32_ERROR_READ_FAILED)],
          buf |-> ZeroRawSector]

sd_write_block(dev, lba, buf) ==
    IF lba \in DOMAIN dev.b
    THEN [err |-> FAT32_OK,
          dev |-> [dev EXCEPT !.n = @ + 1, !.b = [@ EXCEPT ![lba] = buf]]]
    ELSE [err |-> FAT32_ERROR_WRITE_FAILED,
          dev |-> [dev EXCEPT !.n = @ + 1,
                              !.e = FirstError(dev, FAT32_ERROR_WRITE_FAILED)]]

-----------------------------------------------------------------------------
(* Sector-level access functions.                                          *)

cluster_to_sector(g, cluster) ==
    U32(U32(U32(cluster - 2) * g.boot_sector.sectors_per_cluster)
          + g.first_data_sector)

read_sector(g, dev, sector) == sd_read_block(dev, U32(g.volume_start_block + sector))

write_sector(g, dev, sector, buf) ==
    sd_write_block(dev, U32(g.volume_start_block + sector), buf)

-----------------------------------------------------------------------------
(* The FAT.                                                                *)

fat_sector_of(g, cluster) ==
    g.boot_sector.reserved_sectors
      + (U32(cluster * FAT32_FAT_ENTRY_SIZE) \div FAT32_SECTOR_SIZE)

fat_index_of(cluster) ==
    (U32(cluster * FAT32_FAT_ENTRY_SIZE) % FAT32_SECTOR_SIZE)
      \div FAT32_FAT_ENTRY_SIZE + 1

LowBits == 268435455

read_cluster_fat_entry(g, dev, cluster) ==
    IF cluster < 2
    THEN [err |-> FAT32_ERROR_INVALID_PARAMETER, dev |-> dev, value |-> 0]
    ELSE Let([r \in {read_sector(g, dev, fat_sector_of(g, cluster))}
         |-> IF r.err # FAT32_OK
             THEN [err |-> r.err, dev |-> r.dev, value |-> 0]
             ELSE [err |-> FAT32_OK, dev |-> r.dev,
                   value |-> AsFat(r.buf)[fat_index_of(cluster)] % (LowBits + 1)]])

\* write_cluster_fat_entry that stores the value as the whole word.
write_cluster_fat_entry_whole(g, dev, cluster, value) ==
    IF cluster < 2
    THEN [err |-> FAT32_ERROR_INVALID_PARAMETER, dev |-> dev]
    ELSE Let([r \in {read_sector(g, dev, fat_sector_of(g, cluster))}
         |-> IF r.err # FAT32_OK
             THEN [err |-> r.err, dev |-> r.dev]
             ELSE LET buf == [k |-> "fat",
                              c |-> [AsFat(r.buf) EXCEPT
                                       ![fat_index_of(cluster)] =
                                           value % (LowBits + 1)]]
                  IN  write_sector(g, r.dev, fat_sector_of(g, cluster), buf)])

write_cluster_fat_entry(g, dev, cluster, value) ==
    IF cluster < 2
    THEN [err |-> FAT32_ERROR_INVALID_PARAMETER, dev |-> dev]
    ELSE Let([r \in {read_sector(g, dev, fat_sector_of(g, cluster))}
         |-> IF r.err # FAT32_OK
             THEN [err |-> r.err, dev |-> r.dev]
             ELSE LET old == AsFat(r.buf)[fat_index_of(cluster)]
                      new == (old - (old % (LowBits + 1)))
                               + (value % (LowBits + 1))
                      buf == [k |-> "fat",
                              c |-> [AsFat(r.buf) EXCEPT
                                       ![fat_index_of(cluster)] = new]]
                  IN  write_sector(g, r.dev, fat_sector_of(g, cluster), buf)])

RECURSIVE get_next_free_cluster_from(_, _, _)
get_next_free_cluster_from(g, dev, i) ==
    IF ~(i < g.cluster_count + 2)
    THEN [err |-> FAT32_ERROR_DISK_FULL, dev |-> dev, cluster |-> 0]
    ELSE Let([r \in {read_cluster_fat_entry(g, dev, i)}
         |-> IF r.err # FAT32_OK
             THEN [err |-> r.err, dev |-> r.dev, cluster |-> 0]
             ELSE IF r.value = FAT32_FAT_ENTRY_FREE
             THEN [err |-> FAT32_OK, dev |-> r.dev, cluster |-> i]
             ELSE get_next_free_cluster_from(g, r.dev, i + 1)])

\* get_next_free_cluster that passes over the first free cluster when a
\* second one is free.
get_next_free_cluster_second(g, dev) ==
    Let([r \in {get_next_free_cluster_from(g, dev, 2)}
    |-> IF r.err # FAT32_OK THEN r
        ELSE Let([s \in {get_next_free_cluster_from(g, r.dev,
                                                    r.cluster + 1)}
             |-> IF s.err # FAT32_OK THEN r ELSE s])])

get_next_free_cluster(g, dev) == get_next_free_cluster_from(g, dev, 2)

RECURSIVE release_cluster_chain_from(_, _, _)
release_cluster_chain_from(g, dev, cluster) ==
    IF ~(cluster < FAT32_FAT_ENTRY_EOC)
    THEN [err |-> FAT32_OK, dev |-> dev]
    ELSE Let([r \in {read_cluster_fat_entry(g, dev, cluster)}
         |-> IF r.err # FAT32_OK THEN [err |-> r.err, dev |-> r.dev]
             ELSE Let([w \in {write_cluster_fat_entry(g, r.dev, cluster,
                                                   FAT32_FAT_ENTRY_FREE)}
                  |-> IF w.err # FAT32_OK THEN [err |-> w.err, dev |-> w.dev]
                      ELSE IF r.value >= FAT32_FAT_ENTRY_EOC
                      THEN [err |-> FAT32_OK, dev |-> w.dev]
                      ELSE release_cluster_chain_from(g, w.dev, r.value)])])

\* release_cluster_chain that leaves the chain allocated.
release_cluster_chain_kept(g, dev, start_cluster) ==
    [err |-> FAT32_OK, dev |-> dev]

release_cluster_chain(g, dev, start_cluster) ==
    IF start_cluster < 2
    THEN [err |-> FAT32_ERROR_INVALID_PARAMETER, dev |-> dev]
    ELSE release_cluster_chain_from(g, dev, start_cluster)

-----------------------------------------------------------------------------
(* Characters.  A name is a sequence of ASCII codes.                       *)

Printable ==
    <<" ", "!", "dq", "#", "$", "%", "&", "'", "(", ")", "*", "+", ",", "-",
      ".", "/", "0", "1", "2", "3", "4", "5", "6", "7", "8", "9", ":", ";",
      "<", "=", ">", "?", "@", "A", "B", "C", "D", "E", "F", "G", "H", "I",
      "J", "K", "L", "M", "N", "O", "P", "Q", "R", "S", "T", "U", "V", "W",
      "X", "Y", "Z", "[", "bs", "]", "^", "_", "bq", "a", "b", "c", "d", "e",
      "f", "g", "h", "i", "j", "k", "l", "m", "n", "o", "p", "q", "r", "s",
      "t", "u", "v", "w", "x", "y", "z", "{", "|", "}", "~">>

\* The ASCII code of a character.
Ord(c) == 31 + (CHOOSE i \in 1..Len(Printable) : Printable[i] = c)

\* The name spelled by a sequence of characters.
Str(cs) == [i \in 1..Len(cs) |-> Ord(cs[i])]

SPACE == 32
DOT == 46
SLASH == 47
TILDE == 126
QUESTION == 63
UNDERSCORE == 95

toupper(c) == IF c >= 97 /\ c <= 122 THEN c - 32 ELSE c
tolower(c) == IF c >= 65 /\ c <= 90 THEN c + 32 ELSE c

\* strchr, strrchr: the index (from 1) of the first, last c in s; 0 if none.
strchr(s, c) ==
    IF \E i \in 1..Len(s) : s[i] = c
    THEN CHOOSE i \in 1..Len(s) : s[i] = c /\ \A j \in 1..(i - 1) : s[j] # c
    ELSE 0

strrchr(s, c) ==
    IF \E i \in 1..Len(s) : s[i] = c
    THEN CHOOSE i \in 1..Len(s) :
            s[i] = c /\ \A j \in (i + 1)..Len(s) : s[j] # c
    ELSE 0

strcasecmp_exact(a, b) == a = b

strcasecmp_eq(a, b) ==
    /\ Len(a) = Len(b)
    /\ \A i \in 1..Len(a) : tolower(a[i]) = tolower(b[i])

\* The C string held in a buffer: the bytes before the first NUL.
CStr(buf) ==
    LET n == IF \E i \in 1..Len(buf) : buf[i] = 0
             THEN (CHOOSE i \in 1..Len(buf) :
                      buf[i] = 0 /\ \A j \in 1..(i - 1) : buf[j] # 0) - 1
             ELSE Len(buf)
    IN  SubSeq(buf, 1, n)

-----------------------------------------------------------------------------
(* File system naming utility functions.                                   *)

utf16_to_utf8(utf16) == IF utf16 < 128 THEN utf16 ELSE QUESTION

utf8_to_utf16(utf8) == U8(utf8)

\* index and len are uint8_t parameters.
utf8_to_lfn_ch(utf8, index, len) ==
    IF U8(index) = U8(len) THEN 0
    ELSE IF U8(index) > U8(len) THEN 65535
    ELSE utf8_to_utf16(utf8)

Spaces(n) == [i \in 1..n |-> SPACE]

filename_to_shortname(filename) ==
    LET dot == strrchr(filename, DOT)
        name_len == IF dot # 0 THEN dot - 1 ELSE Len(filename)
    IN  [i \in 1..11 |->
            IF i <= 8
            THEN IF i <= name_len THEN toupper(filename[i]) ELSE SPACE
            ELSE IF dot # 0 /\ dot + (i - 8) <= Len(filename)
                 THEN toupper(filename[dot + (i - 8)])
                 ELSE SPACE]

RECURSIVE shortname_base(_, _)
shortname_base(shortname, i) ==
    IF i > 8 \/ shortname[i] = SPACE THEN <<>>
    ELSE <<tolower(shortname[i])>> \o shortname_base(shortname, i + 1)

shortname_to_filename(shortname) ==
    LET ext == SelectSeq(SubSeq(shortname, 9, 11), LAMBDA c : c # SPACE)
    IN  shortname_base(shortname, 1)
          \o (IF Len(ext) > 0 THEN <<DOT>> ELSE <<>>)
          \o [i \in 1..Len(ext) |-> tolower(ext[i])]

\* the characters strchr(forbidden, c) finds
forbidden == {34, 42, 43, 44, 46, 47, 58, 59, 60, 61, 62, 63, 91, 92, 93, 124}

valid_shortname(filename) ==
    LET len == Len(filename)
        dot == strchr(filename, DOT)
        name_len == IF dot # 0 THEN dot - 1 ELSE len
        ext_len == IF dot # 0 THEN len - name_len - 1 ELSE 0
    IN  /\ len >= 1 /\ len <= 12
        /\ dot # 0 => (dot = strrchr(filename, DOT) /\ dot # 1)
        /\ name_len >= 1 /\ name_len <= 8
        /\ ext_len >= 0 /\ ext_len <= 3
        /\ \A i \in 1..name_len :
              filename[i] > 32 /\ filename[i] \notin forbidden
        /\ \A i \in 1..ext_len :
              filename[dot + i] > 32 /\ filename[dot + i] \notin forbidden

lfn_part_count(filename) == (Len(filename) + 12) \div 13

\* The byte *(name++) reads at offset j (from 0): past the terminating NUL
\* it reads the zero padding strncpy left in path_copy.
name_byte(filename, j) == IF j < Len(filename) THEN filename[j + 1] ELSE 0

\* lfn_buffer after filename_to_lfn: part p (from 0) holds 13 code units.
filename_to_lfn(filename) ==
    [p \in 0..(lfn_part_count(filename) - 1) |->
        [k \in 1..FAT32_DIR_LFN_PART_SIZE |->
            LET j == p * FAT32_DIR_LFN_PART_SIZE + (k - 1)
            IN  utf8_to_lfn_ch(name_byte(filename, j), j, Len(filename))]]

RECURSIVE shortname_checksum_from(_, _, _)
shortname_checksum_from(shortname, i, sum) ==
    IF i > 11 THEN sum
    ELSE shortname_checksum_from(shortname, i + 1,
            U8((IF sum % 2 = 1 THEN 128 ELSE 0) + (sum \div 2)
                 + U8(shortname[i])))

shortname_checksum(shortname) == shortname_checksum_from(shortname, 1, 0)

lfn_to_str(lfn_name) ==
    [k \in 1..FAT32_DIR_LFN_PART_SIZE |-> utf16_to_utf8(lfn_name[k])]

-----------------------------------------------------------------------------
(* Directory enumeration.                                                  *)

\* A closed, zeroed fat32_dir_t and fat32_file_t.
ZeroDir ==
    [is_open |-> FALSE, start_cluster |-> 0, current_cluster |-> 0,
     position |-> 0, last_entry_read |-> FALSE]

ZeroFile ==
    [is_open |-> FALSE, start_cluster |-> 0, current_cluster |-> 0,
     file_size |-> 0, position |-> 0, attributes |-> 0,
     dir_entry_sector |-> 0, dir_entry_offset |-> 0]

\* A fat32_entry_t with filename[0] = 0.
ZeroEntry ==
    [filename |-> <<>>, attr |-> 0, start_cluster |-> 0, size |-> 0,
     sector |-> 0, offset |-> 0]

\* fat32_dir_t of a directory known by its start cluster (fat32.c:497-501).
OpenDirAt(cluster) ==
    [is_open |-> TRUE, start_cluster |-> cluster, current_cluster |-> cluster,
     position |-> 0, last_entry_read |-> FALSE]

HasAttr(attr, bit) == (attr \div bit) % 2 = 1

\* The locals of fat32_dir_read: the staging buffer filename (fn), whether
\* it has been memset (fninit), expected_checksum, current_sector and the
\* sector_buffer it names; ub records a write outside fn or a use of fn
\* before it was initialised.
DirReadLocals ==
    [fn |-> [i \in 1..(FAT32_MAX_FILENAME_LEN + 1) |-> 0], fninit |-> FALSE,
     expected_checksum |-> 0, current_sector |-> -1, buf |-> ZeroDirSector,
     ub |-> FALSE]

\* lfn_to_str(lfn_entry, filename + offset)
StageLfn(fn, offset, part) ==
    [i \in 1..Len(fn) |->
        IF (i - 1) >= offset /\ (i - 1) < offset + FAT32_DIR_LFN_PART_SIZE
        THEN part[i - offset]
        ELSE fn[i]]

StageInBounds(offset) ==
    offset >= 0 /\ offset + FAT32_DIR_LFN_PART_SIZE <= FAT32_MAX_FILENAME_LEN + 1

\* One slot of the loop of fat32_dir_read (fat32.c:1876-1919): the locals
\* and the entry after looking at slot e found at (sector, offset).
dir_read_slot(d, l, e, sector, offset) ==
    IF e.b0 = FAT32_DIR_ENTRY_END_MARKER
    THEN [d |-> [d EXCEPT !.last_entry_read = TRUE], l |-> l,
          entry |-> ZeroEntry]
    ELSE IF e.attr = FAT32_ATTR_LONG_NAME
    THEN LET first == HasAttr(e.b0, 64)
             l1 == IF first
                   THEN [l EXCEPT
                           !.fn = [i \in 1..Len(l.fn) |-> 0],
                           !.fninit = TRUE,
                           !.expected_checksum = e.chk]
                   ELSE l
             off == ((e.b0 % 64) - 1) * FAT32_DIR_LFN_PART_SIZE
             IN  Let([l2 \in {IF e.chk = l1.expected_checksum
                   THEN [l1 EXCEPT
                           !.fn = StageLfn(@, off, lfn_to_str(e.name)),
                           !.ub = @ \/ ~StageInBounds(off) \/ ~l1.fninit]
                   ELSE l1}
         |-> [d |-> d, l |-> l2, entry |-> ZeroEntry]])
    ELSE IF e.b0 # FAT32_DIR_ENTRY_FREE
    THEN Let([checksum \in {shortname_checksum(e.name)} |->
             LET long == l.fn[1] # 0 /\ l.expected_checksum = checksum
         IN  [d |-> d, l |-> l,
              entry |-> [filename |-> IF long THEN CStr(l.fn)
                                      ELSE shortname_to_filename(e.name),
                         attr |-> e.attr, start_cluster |-> e.clus,
                         size |-> e.size, sector |-> sector,
                         offset |-> offset]]])
    ELSE [d |-> d, l |-> l, entry |-> ZeroEntry]

RECURSIVE dir_read_loop(_, _, _, _)
dir_read_loop(g, dev, d, l) ==
    LET cluster_offset == d.position % g.bytes_per_cluster
        sector_in_cluster == cluster_offset \div FAT32_SECTOR_SIZE
        sector == U32(cluster_to_sector(g, d.current_cluster) + sector_in_cluster)
        IN  Let([r \in {IF sector # l.current_sector
             THEN read_sector(g, dev, sector)
             ELSE [err |-> FAT32_OK, dev |-> dev, buf |-> l.buf]}
    |-> IF r.err # FAT32_OK
        THEN [err |-> r.err, dev |-> r.dev, d |-> d, entry |-> ZeroEntry,
              ub |-> l.ub]
        ELSE
        LET offset == d.position % FAT32_SECTOR_SIZE
            e == AsDir(r.buf)[offset \div FAT32_DIR_ENTRY_SIZE + 1]
            IN  Let([s \in {dir_read_slot(d, [l EXCEPT !.current_sector = sector,
                                            !.buf = r.buf],
                               e, sector, offset)} |->
            LET d1 == [s.d EXCEPT !.position = @ + FAT32_DIR_ENTRY_SIZE]
        IN  IF d1.position % g.bytes_per_cluster = 0
            THEN Let([f \in {read_cluster_fat_entry(g, r.dev, d1.current_cluster)}
                 |-> IF f.err # FAT32_OK
                     THEN [err |-> f.err, dev |-> f.dev, d |-> d1,
                           entry |-> s.entry, ub |-> s.l.ub]
                     ELSE IF f.value >= FAT32_FAT_ENTRY_EOC
                     THEN [err |-> FAT32_OK, dev |-> f.dev,
                           d |-> [d1 EXCEPT !.last_entry_read = TRUE],
                           entry |-> s.entry, ub |-> s.l.ub]
                     ELSE LET d2 == [d1 EXCEPT !.current_cluster = f.value]
                          IN  IF ~d2.last_entry_read /\ s.entry.filename = <<>>
                              THEN dir_read_loop(g, f.dev, d2, s.l)
                              ELSE [err |-> FAT32_OK, dev |-> f.dev, d |-> d2,
                                    entry |-> s.entry, ub |-> s.l.ub]])
            ELSE IF ~d1.last_entry_read /\ s.entry.filename = <<>>
                 THEN dir_read_loop(g, r.dev, d1, s.l)
                 ELSE [err |-> FAT32_OK, dev |-> r.dev, d |-> d1,
                       entry |-> s.entry, ub |-> s.l.ub]])])

\* fat32_dir_read while the volume is ready.
fat32_dir_read(g, dev, d) ==
    IF ~d.is_open
    THEN [err |-> FAT32_ERROR_READ_FAILED, dev |-> dev, d |-> d,
          entry |-> ZeroEntry, ub |-> FALSE]
    ELSE IF d.last_entry_read
    THEN [err |-> FAT32_OK, dev |-> dev, d |-> d, entry |-> ZeroEntry,
          ub |-> FALSE]
    ELSE dir_read_loop(g, dev, d, DirReadLocals)

fat32_dir_close(d) == IF d.is_open THEN ZeroDir ELSE d

-----------------------------------------------------------------------------
(* Path resolution.                                                        *)

\* strncpy(path_copy, path, sizeof(path_copy) - 1)
path_copy_of(path) == SubSeq(path, 1, Min(Len(path), FAT32_MAX_PATH_LEN - 1))

\* The tokens strtok_r(..., "/") yields from cur followed by s: the
\* non-empty runs between slashes, in their order (cur holds no slash).
strtok_all(s, cur) ==
    LET t == cur \o s
        starts == {i \in 1..Len(t) :
                     t[i] # SLASH /\ (i = 1 \/ t[i - 1] = SLASH)}
        stop(i) == CHOOSE j \in i..Len(t) :
                       /\ \A k \in i..j : t[k] # SLASH
                       /\ (j = Len(t) \/ t[j + 1] = SLASH)
        nth(k) == CHOOSE i \in starts :
                      Cardinality({j \in starts : j < i}) = k - 1
    IN  [k \in 1..Cardinality(starts) |-> SubSeq(t, nth(k), stop(nth(k)))]

\* The inner loop of find_entry (fat32.c:929-948) over one directory:
\* "last" when the final component matched, "down" when an intermediate
\* component matched a directory, "none" otherwise.
RECURSIVE find_in_dir(_, _, _, _, _, _)
find_in_dir(g, dev, d, token, is_last, ub) ==
    Let([r \in {fat32_dir_read(g, dev, d)}
    |-> IF r.err # FAT32_OK \/ r.entry.filename = <<>>
        THEN [kind |-> "none", dev |-> r.dev, entry |-> ZeroEntry,
              ub |-> ub \/ r.ub]
        ELSE IF strcasecmp_eq(r.entry.filename, token) /\ is_last
        THEN [kind |-> "last", dev |-> r.dev, entry |-> r.entry,
              ub |-> ub \/ r.ub]
        ELSE IF strcasecmp_eq(r.entry.filename, token)
                  /\ HasAttr(r.entry.attr, FAT32_ATTR_DIRECTORY)
        THEN [kind |-> "down", dev |-> r.dev, entry |-> r.entry,
              ub |-> ub \/ r.ub]
        ELSE find_in_dir(g, r.dev, r.d, token, is_last, ub \/ r.ub)])

RECURSIVE find_entry_walk(_, _, _, _, _)
find_entry_walk(g, dev, cluster, tokens, ub) ==
    IF tokens = <<>>
    THEN [err |-> FAT32_ERROR_FILE_NOT_FOUND, dev |-> dev, entry |-> ZeroEntry,
          ub |-> ub]
    ELSE LET is_last == Len(tokens) = 1
             IN  Let([r \in {find_in_dir(g, dev, OpenDirAt(cluster), Head(tokens), is_last,
                              ub)}
         |-> IF r.kind = "last"
             THEN [err |-> FAT32_OK, dev |-> r.dev, entry |-> r.entry,
                   ub |-> r.ub]
             ELSE IF r.kind = "none" /\ ~is_last
             THEN [err |-> FAT32_ERROR_INVALID_PATH, dev |-> r.dev,
                   entry |-> ZeroEntry, ub |-> r.ub]
             ELSE find_entry_walk(g, 
                      r.dev,
                      IF r.kind = "down"
                      THEN (IF r.entry.start_cluster # 0
                            THEN r.entry.start_cluster
                            ELSE g.boot_sector.root_cluster)
                      ELSE cluster,
                      Tail(tokens), r.ub)])

DirEntryOf(cluster) == [ZeroEntry EXCEPT !.start_cluster = cluster,
                                         !.attr = FAT32_ATTR_DIRECTORY]

find_entry(g, dev, path) ==
    IF path = <<SLASH>>
    THEN [err |-> FAT32_OK, dev |-> dev,
          entry |-> DirEntryOf(g.boot_sector.root_cluster), ub |-> FALSE]
    ELSE IF path = <<>>
              \/ ((path = <<DOT>> \/ path = <<DOT, DOT>>)
                    /\ g.current_dir_cluster = g.boot_sector.root_cluster)
    THEN [err |-> FAT32_OK, dev |-> dev,
          entry |-> DirEntryOf(g.current_dir_cluster), ub |-> FALSE]
    ELSE LET abs == Head(path) = SLASH
             IN  Let([copy \in {path_copy_of(IF abs THEN Tail(path) ELSE path)}
         |-> find_entry_walk(g, dev,
                             IF abs THEN g.boot_sector.root_cluster
                             ELSE g.current_dir_cluster,
                             strtok_all(copy, <<>>), FALSE)])

\* fat32_dir_open while the volume is ready.
fat32_dir_open(g, dev, path) ==
    IF Len(path) > FAT32_MAX_PATH_LEN
    THEN [err |-> FAT32_ERROR_INVALID_PATH, dev |-> dev, d |-> ZeroDir,
          ub |-> FALSE]
    ELSE Let([r \in {find_entry(g, dev, path)}
         |-> IF r.err # FAT32_OK
             THEN [err |-> r.err, dev |-> r.dev, d |-> ZeroDir, ub |-> r.ub]
             ELSE IF ~HasAttr(r.entry.attr, FAT32_ATTR_DIRECTORY)
             THEN [err |-> FAT32_ERROR_NOT_A_DIRECTORY, dev |-> r.dev,
                   d |-> ZeroDir, ub |-> r.ub]
             ELSE [err |-> FAT32_OK, dev |-> r.dev,
                   d |-> OpenDirAt(IF r.entry.start_cluster # 0
                                   THEN r.entry.start_cluster
                                   ELSE g.boot_sector.root_cluster),
                   ub |-> r.ub]])

-----------------------------------------------------------------------------
(* Short name synthesis.                                                   *)

RECURSIVE shortname_exists_from(_, _, _, _)
shortname_exists_from(g, dev, scan, shortname) ==
    Let([r \in {fat32_dir_read(g, dev, scan)}
    |-> IF r.err # FAT32_OK \/ r.entry.filename = <<>>
        THEN [exists |-> FALSE, dev |-> r.dev]
        ELSE IF filename_to_shortname(r.entry.filename) = shortname
        THEN [exists |-> TRUE, dev |-> r.dev]
        ELSE shortname_exists_from(g, r.dev, r.d, shortname)])

shortname_exists(g, dev, shortname, d) ==
    shortname_exists_from(g, dev, [d EXCEPT !.position = 0], shortname)

\* The characters a short name keeps: A-Z, 0-9 and $%'-_@~`!(){}^#&
basis_allowed(c) ==
    \/ c >= 65 /\ c <= 90
    \/ c >= 48 /\ c <= 57
    \/ c \in {36, 37, 39, 45, 95, 64, 126, 96, 33, 40, 41, 123, 125, 94, 35, 38}

basis_char(c) == IF basis_allowed(c) THEN c ELSE UNDERSCORE

RECURSIVE strip_leading_dots(_)
strip_leading_dots(s) ==
    IF s # <<>> /\ Head(s) = DOT THEN strip_leading_dots(Tail(s)) ELSE s

RECURSIVE decimal(_)
decimal(n) ==
    IF n < 10 THEN <<48 + n>> ELSE Append(decimal(n \div 10), 48 + (n % 10))

\* Steps 1-5 of unique_shortname (fat32.c:726-796): base, ext and lossy.
shortname_basis(longname) ==
    LET upper == [i \in 1..Len(longname) |-> toupper(longname[i])]
        temp == SelectSeq(upper, LAMBDA c : c # SPACE)
        IN  Let([p \in {strip_leading_dots(temp)} |->
        LET dot0 == strrchr(p, DOT)
        dot == IF dot0 = 1 THEN 0 ELSE dot0
        stem == IF dot # 0 THEN SubSeq(p, 1, dot - 1) ELSE p
        head == SubSeq(stem, 1, Min(Len(stem), 8))
        tail == IF dot # 0 THEN SubSeq(p, dot + 1, Min(Len(p), dot + 3))
                ELSE <<>>
    IN  [base |-> [i \in 1..Len(head) |-> basis_char(head[i])],
         ext |-> [i \in 1..Len(tail) |-> basis_char(tail[i])],
         lossy |-> \/ \E i \in 1..Len(head) : ~basis_allowed(head[i])
                   \/ \E i \in 1..Len(tail) : ~basis_allowed(tail[i])]])

\* The 11 bytes of a candidate: stem in the first 8, ext in the last 3.
candidate_of(stem, ext) ==
    [i \in 1..11 |->
        IF i <= 8 THEN (IF i <= Len(stem) THEN stem[i] ELSE SPACE)
        ELSE IF i - 8 <= Len(ext) THEN ext[i - 8] ELSE SPACE]

tailed_candidate(base, ext, n) ==
    LET tail == <<TILDE>> \o decimal(n)
        base_len == Min(8 - Len(tail), Len(base))
    IN  candidate_of(SubSeq(base, 1, base_len) \o tail, ext)

RECURSIVE numeric_tail_from(_, _, _, _, _, _)
numeric_tail_from(g, dev, d, base, ext, n) ==
    IF ~(n < 1000000)
    THEN [err |-> FAT32_ERROR_DISK_FULL, dev |-> dev, shortname |-> <<>>]
    ELSE Let([candidate \in {tailed_candidate(base, ext, n)} |->
             Let([x \in {shortname_exists(g, dev, candidate, d)}
         |-> IF ~x.exists
             THEN [err |-> FAT32_OK, dev |-> x.dev, shortname |-> candidate]
             ELSE numeric_tail_from(g, x.dev, d, base, ext, n + 1)])])

unique_shortname(g, dev, d, longname) ==
    Let([b \in {shortname_basis(longname)} |->
        Let([candidate \in {candidate_of(b.base, b.ext)} |->
        Let([x \in {IF b.lossy \/ Len(b.base) > 8 \/ Len(b.ext) > 3
             THEN [exists |-> TRUE, dev |-> dev]
             ELSE shortname_exists(g, dev, candidate, d)}
    |-> IF ~x.exists
        THEN [err |-> FAT32_OK, dev |-> x.dev, shortname |-> candidate]
        ELSE numeric_tail_from(g, x.dev, d, b.base, b.ext, 1)])])])

-----------------------------------------------------------------------------
(* Entry creation.                                                         *)

IsFreeSlot(e) ==
    e.b0 = FAT32_DIR_ENTRY_FREE \/ e.b0 = FAT32_DIR_ENTRY_END_MARKER

\* The for loop over the slots of one sector (fat32.c:1052-1074); st holds
\* free_count, free_entry_pos, free_entry_sector, free_entry_cluster, found.
RECURSIVE scan_sector(_, _, _, _, _, _, _)
scan_sector(slots, i, st, entry_pos, sector, cluster, needed_entries) ==
    IF i > SlotsPerSector THEN st
    ELSE IF IsFreeSlot(slots[i])
    THEN LET s1 == IF st.free_count = 0
                   THEN [st EXCEPT
                           !.free_entry_pos =
                               entry_pos + (i - 1) * FAT32_DIR_ENTRY_SIZE,
                           !.free_entry_sector = sector,
                           !.free_entry_cluster = cluster]
                   ELSE st
             s2 == [s1 EXCEPT !.free_count = @ + 1]
         IN  IF s2.free_count > needed_entries
             THEN [s2 EXCEPT !.found = TRUE]
             ELSE scan_sector(slots, i + 1, s2, entry_pos, sector, cluster,
                              needed_entries)
    ELSE scan_sector(slots, i + 1, [st EXCEPT !.free_count = 0], entry_pos,
                     sector, cluster, needed_entries)

\* The while (!found) loop of new_entry (fat32.c:1038-1092).
RECURSIVE find_free_run(_, _, _, _, _, _)
find_free_run(g, dev, st, entry_pos, cluster, needed_entries) ==
    LET cluster_offset == entry_pos % g.bytes_per_cluster
        sector_in_cluster == cluster_offset \div FAT32_SECTOR_SIZE
        sector == U32(cluster_to_sector(g, cluster) + sector_in_cluster)
        IN  Let([r \in {read_sector(g, dev, sector)}
    |-> IF r.err # FAT32_OK THEN [err |-> r.err, dev |-> r.dev, st |-> st]
        ELSE
        Let([s1 \in {scan_sector(AsDir(r.buf), 1, st, entry_pos, sector, cluster,
                              needed_entries)} |->
            LET next_pos == entry_pos + FAT32_SECTOR_SIZE
        IN  IF s1.found THEN [err |-> FAT32_OK, dev |-> r.dev, st |-> s1]
            ELSE IF next_pos % g.bytes_per_cluster = 0
            THEN Let([f \in {read_cluster_fat_entry(g, r.dev, cluster)}
                 |-> IF f.err # FAT32_OK \/ f.value >= FAT32_FAT_ENTRY_EOC
                     THEN [err |-> FAT32_ERROR_DISK_FULL, dev |-> f.dev,
                           st |-> s1]
                     ELSE find_free_run(g, f.dev, s1, next_pos, f.value,
                                        needed_entries)])
            ELSE find_free_run(g, r.dev, s1, next_pos, cluster, needed_entries)])])

\* The while loop of fat32.c:1126-1137: follow the chain while the sector
\* index lies past the cluster.
RECURSIVE lfn_slot_cluster(_, _, _, _)
lfn_slot_cluster(g, dev, current_cluster, entry_sector_in_cluster) ==
    IF ~(entry_sector_in_cluster >= g.boot_sector.sectors_per_cluster)
    THEN [err |-> FAT32_OK, dev |-> dev, cluster |-> current_cluster,
          sector_in_cluster |-> entry_sector_in_cluster]
    ELSE Let([f \in {read_cluster_fat_entry(g, dev, current_cluster)}
         |-> IF f.err # FAT32_OK \/ f.value >= FAT32_FAT_ENTRY_EOC
             THEN [err |-> FAT32_ERROR_DISK_FULL, dev |-> f.dev,
                   cluster |-> current_cluster,
                   sector_in_cluster |-> entry_sector_in_cluster]
             ELSE lfn_slot_cluster(g, f.dev, f.value,
                     entry_sector_in_cluster - g.boot_sector.sectors_per_cluster)])

\* Read a directory sector, replace the slot at byte offset `byte`, write
\* the sector back.
patch_slot(g, dev, sector, byte, slot) ==
    Let([r \in {read_sector(g, dev, sector)}
    |-> IF r.err # FAT32_OK THEN [err |-> r.err, dev |-> r.dev]
        ELSE write_sector(g, r.dev, sector,
                 [k |-> "dir",
                  c |-> [AsDir(r.buf) EXCEPT
                           ![byte \div FAT32_DIR_ENTRY_SIZE + 1] = slot]])])

\* The loop writing the LFN slots, last part first (fat32.c:1114-1167).
RECURSIVE write_lfn_slots(_, _, _, _, _, _, _)
write_lfn_slots(g, dev, i, needed_entries, st, lfn_buffer, checksum) ==
    IF ~(i < needed_entries) THEN [err |-> FAT32_OK, dev |-> dev]
    ELSE
    LET index == U8(needed_entries - i - 1)
        entry_offset == st.free_entry_pos + i * FAT32_DIR_ENTRY_SIZE
        entry_cluster_offset == entry_offset % g.bytes_per_cluster
        entry_byte_in_sector == entry_cluster_offset % FAT32_SECTOR_SIZE
        IN  Let([c \in {lfn_slot_cluster(g, dev, st.free_entry_cluster,
                              entry_cluster_offset \div FAT32_SECTOR_SIZE)}
    |-> IF c.err # FAT32_OK THEN [err |-> c.err, dev |-> c.dev]
        ELSE
        LET entry_sector == U32(cluster_to_sector(g, c.cluster)
                                  + c.sector_in_cluster)
            seq == IF i = 0 THEN U8(index + 1 + 64) ELSE U8(index + 1)
            IN  Let([w \in {patch_slot(g, c.dev, entry_sector, entry_byte_in_sector,
                            Slot(seq, FAT32_ATTR_LONG_NAME, lfn_buffer[index],
                                 checksum, 0, 0))}
        |-> IF w.err # FAT32_OK THEN [err |-> w.err, dev |-> w.dev]
            ELSE write_lfn_slots(g, w.dev, i + 1, needed_entries, st, lfn_buffer,
                                 checksum)])])

\* strrchr(path_copy, '/') split: parent_path and filename (fat32.c:985-1000).
split_path(path) ==
    Let([copy \in {path_copy_of(path)} |->
        LET slash == strrchr(copy, SLASH)
    IN  IF slash # 0
        THEN [parent_path |-> SubSeq(copy, 1, slash - 1),
              filename |-> SubSeq(copy, slash + 1, Len(copy))]
        ELSE [parent_path |-> <<>>, filename |-> copy]])

NoRun ==
    [free_count |-> 0, free_entry_pos |-> 0, free_entry_sector |-> 0,
     free_entry_cluster |-> 0, found |-> FALSE]

\* new_entry from the allocation of the start cluster on (fat32.c:1094-1210).
new_entry_write(g, dev, d, st, filename, shortname, attr, ub) ==
    Let([a \in {get_next_free_cluster(g, dev)}
    |-> IF a.err # FAT32_OK
        THEN [err |-> a.err, dev |-> a.dev, file |-> ZeroFile, ub |-> ub]
        ELSE
        Let([e \in {write_cluster_fat_entry(g, a.dev, a.cluster, FAT32_FAT_ENTRY_EOC)}
        |-> IF e.err # FAT32_OK
            THEN [err |-> e.err, dev |-> e.dev, file |-> ZeroFile, ub |-> ub]
            ELSE
            Let([needed_entries \in {lfn_part_count(filename)} |->
                Let([l \in {write_lfn_slots(g, e.dev, 0, needed_entries, st,
                                     filename_to_lfn(filename),
                                     shortname_checksum(shortname))}
            |-> IF l.err # FAT32_OK
                THEN [err |-> l.err, dev |-> l.dev, file |-> ZeroFile,
                      ub |-> ub]
                ELSE
                LET entry_offset == st.free_entry_pos
                                      + needed_entries * FAT32_DIR_ENTRY_SIZE
                    entry_sector ==
                        U32(cluster_to_sector(g, st.free_entry_cluster)
                              + (entry_offset % g.bytes_per_cluster)
                                  \div FAT32_SECTOR_SIZE)
                    entry_byte == entry_offset % FAT32_SECTOR_SIZE
                    IN  Let([w \in {patch_slot(g, l.dev, entry_sector, entry_byte,
                                    Slot(shortname[1], attr, shortname, 0,
                                         a.cluster, 0))}
                |-> IF w.err # FAT32_OK
                    THEN [err |-> w.err, dev |-> w.dev, file |-> ZeroFile,
                          ub |-> ub]
                    ELSE [err |-> FAT32_OK, dev |-> w.dev,
                          file |-> [ZeroFile EXCEPT
                                      !.is_open = TRUE,
                                      !.start_cluster = a.cluster,
                                      !.current_cluster = a.cluster,
                                      !.dir_entry_sector = entry_sector,
                                      !.dir_entry_offset = entry_byte],
                          ub |-> ub]])])])])])

\* What new_entry returns when find_entry did not answer FileNotFound
\* (fat32.c:975-982).
existing_error_passed(err) == err

existing_error(err) ==
    IF err = FAT32_OK THEN FAT32_ERROR_FILE_EXISTS ELSE err

\* new_entry while the volume is ready.
new_entry(g, dev, path, attr) ==
    Let([r \in {find_entry(g, dev, path)}
    |-> IF r.err # FAT32_ERROR_FILE_NOT_FOUND
        THEN [err |-> existing_error(r.err), dev |-> r.dev,
              file |-> ZeroFile, ub |-> r.ub]
        ELSE
        Let([sp \in {split_path(path)} |->
            Let([o \in {fat32_dir_open(g, r.dev, sp.parent_path)}
        |-> IF o.err # FAT32_OK
            THEN [err |-> o.err, dev |-> o.dev, file |-> ZeroFile,
                  ub |-> r.ub \/ o.ub]
            ELSE
            Let([n \in {IF valid_shortname(sp.filename)
                     THEN [err |-> FAT32_OK, dev |-> o.dev,
                           shortname |-> filename_to_shortname(sp.filename)]
                     ELSE unique_shortname(g, o.dev, o.d, sp.filename)}
            |-> IF n.err # FAT32_OK
                THEN [err |-> n.err, dev |-> n.dev, file |-> ZeroFile,
                      ub |-> r.ub \/ o.ub]
                ELSE
                Let([f \in {find_free_run(g, n.dev,
                             [NoRun EXCEPT
                                !.free_entry_cluster = o.d.current_cluster],
                             0, o.d.current_cluster,
                             lfn_part_count(sp.filename))}
                |-> IF f.err # FAT32_OK
                    THEN [err |-> f.err, dev |-> f.dev, file |-> ZeroFile,
                          ub |-> r.ub \/ o.ub]
                    ELSE new_entry_write(g, f.dev, o.d, f.st, sp.filename,
                                         n.shortname, attr, r.ub \/ o.ub)])])])])])

-----------------------------------------------------------------------------
(* Entry removal.                                                          *)

\* The loop of delete_entry over a directory that must be empty
\* (fat32.c:1239-1247): TRUE when an entry other than "." and ".." is read.
RECURSIVE dir_has_entries(_, _, _)
dir_has_entries(g, dev, d) ==
    Let([r \in {fat32_dir_read(g, dev, d)}
    |-> IF r.err # FAT32_OK \/ r.entry.filename = <<>>
        THEN [any |-> FALSE, dev |-> r.dev]
        ELSE IF r.entry.filename # <<DOT>> /\ r.entry.filename # <<DOT, DOT>>
        THEN [any |-> TRUE, dev |-> r.dev]
        ELSE dir_has_entries(g, r.dev, r.d)])

\* The backward scan of delete_entry (fat32.c:1270-1286) inside one sector.
RECURSIVE free_lfn_slots(_, _, _)
free_lfn_slots(slots, offset, i) ==
    IF i > MAX_LFN_PART \/ offset < i * FAT32_DIR_ENTRY_SIZE THEN slots
    ELSE LET k == (offset - i * FAT32_DIR_ENTRY_SIZE)
                    \div FAT32_DIR_ENTRY_SIZE + 1
         IN  IF slots[k].attr = FAT32_ATTR_LONG_NAME
             THEN free_lfn_slots(
                      [slots EXCEPT ![k].b0 = FAT32_DIR_ENTRY_FREE],
                      offset, i + 1)
             ELSE slots

\* The sector buf whose slots are marked, with 0xE5 stored in the first
\* byte of slot k (fat32.c:1289-1290).  In a boot sector that byte is the
\* first byte of the jump instruction.
mark_free(buf, marked, k) ==
    IF buf.k = "bpb" /\ k = 1
    THEN [buf EXCEPT !.c.jump = FAT32_DIR_ENTRY_FREE]
    ELSE [k |-> "dir", c |-> [marked EXCEPT ![k].b0 = FAT32_DIR_ENTRY_FREE]]

\* delete_entry from the marking of the slots on (fat32.c:1258-1301).
delete_entry_mark(g, dev, entry) ==
    Let([r \in {read_sector(g, dev, entry.sector)}
    |-> IF r.err # FAT32_OK THEN [err |-> r.err, dev |-> r.dev]
        ELSE
        Let([marked \in {free_lfn_slots(AsDir(r.buf), entry.offset, 1)} |->
            LET k == entry.offset \div FAT32_DIR_ENTRY_SIZE + 1
            IN  Let([w \in {write_sector(g, r.dev, entry.sector,
                     mark_free(r.buf, marked, k))}
        |-> IF w.err # FAT32_OK THEN [err |-> w.err, dev |-> w.dev]
            ELSE [err |-> FAT32_OK,
                  dev |-> release_cluster_chain(g, w.dev, entry.start_cluster).dev]])])])

\* The entries fat32_file_delete refuses (fat32.c:1252).
not_a_file_dirs(attr) == HasAttr(attr, FAT32_ATTR_DIRECTORY)

not_a_file(attr) ==
    HasAttr(attr, FAT32_ATTR_DIRECTORY) \/ HasAttr(attr, FAT32_ATTR_VOLUME_ID)

\* delete_entry while the volume is ready.
delete_entry(g, dev, path, is_dir) ==
    Let([r \in {find_entry(g, dev, path)}
    |-> IF r.err # FAT32_OK THEN [err |-> r.err, dev |-> r.dev]
        ELSE IF is_dir
        THEN IF ~HasAttr(r.entry.attr, FAT32_ATTR_DIRECTORY)
             THEN [err |-> FAT32_ERROR_NOT_A_DIRECTORY, dev |-> r.dev]
             ELSE Let([o \in {fat32_dir_open(g, r.dev, path)}
                  |-> IF o.err # FAT32_OK THEN [err |-> o.err, dev |-> o.dev]
                      ELSE Let([h \in {dir_has_entries(g, o.dev, o.d)}
                           |-> IF h.any
                               THEN [err |-> FAT32_ERROR_DIR_NOT_EMPTY,
                                     dev |-> h.dev]
                               ELSE delete_entry_mark(g, h.dev, r.entry)])])
        ELSE IF not_a_file(r.entry.attr)
        THEN [err |-> FAT32_ERROR_NOT_A_FILE, dev |-> r.dev]
        ELSE delete_entry_mark(g, r.dev, r.entry)])

-----------------------------------------------------------------------------
(* File operations.                                                        *)

\* fat32_file_open while the volume is ready.
fat32_file_open(g, dev, path) ==
    IF path = <<>>
    THEN [err |-> FAT32_ERROR_INVALID_PARAMETER, dev |-> dev,
          file |-> ZeroFile]
    ELSE IF Len(path) > FAT32_MAX_PATH_LEN
    THEN [err |-> FAT32_ERROR_INVALID_PATH, dev |-> dev, file |-> ZeroFile]
    ELSE Let([r \in {find_entry(g, dev, path)}
         |-> IF r.err # FAT32_OK
             THEN [err |-> r.err, dev |-> r.dev, file |-> ZeroFile]
             ELSE IF HasAttr(r.entry.attr, FAT32_ATTR_DIRECTORY)
                       \/ HasAttr(r.entry.attr, FAT32_ATTR_VOLUME_ID)
             THEN [err |-> FAT32_ERROR_NOT_A_FILE, dev |-> r.dev,
                   file |-> ZeroFile]
             ELSE [err |-> FAT32_OK, dev |-> r.dev,
                   file |-> [is_open |-> TRUE,
                             start_cluster |-> r.entry.start_cluster,
                             current_cluster |-> r.entry.start_cluster,
                             file_size |-> r.entry.size,
                             position |-> 0,
                             attributes |-> r.entry.attr,
                             dir_entry_sector |-> r.entry.sector,
                             dir_entry_offset |-> r.entry.offset]]])

fat32_file_create(g, dev, path) == new_entry(g, dev, path, FAT32_ATTR_ARCHIVE)

fat32_file_close_kept(f) == f

fat32_file_close(f) == IF f.is_open THEN ZeroFile ELSE f

\* The while loop of fat32_file_read (fat32.c:1397-1433); data is what has
\* been copied to the caller's buffer so far.
RECURSIVE file_read_loop(_, _, _, _, _)
file_read_loop(g, dev, f, size, data) ==
    IF ~(Len(data) < size)
    THEN [err |-> FAT32_OK, dev |-> dev, file |-> f, data |-> data,
          bytes_read |-> Len(data)]
    ELSE
    LET cluster_offset == f.position % g.bytes_per_cluster
        sector_in_cluster == cluster_offset \div FAT32_SECTOR_SIZE
        byte_in_sector == cluster_offset % FAT32_SECTOR_SIZE
        sector == U32(cluster_to_sector(g, f.current_cluster) + sector_in_cluster)
        IN  Let([r \in {read_sector(g, dev, sector)}
    |-> IF r.err # FAT32_OK
        THEN [err |-> r.err, dev |-> r.dev, file |-> f, data |-> data,
              bytes_read |-> 0]
        ELSE
        LET bytes_to_copy == Min(FAT32_SECTOR_SIZE - byte_in_sector,
                                 size - Len(data))
            data1 == data \o SubSeq(AsRaw(r.buf), byte_in_sector + 1,
                                    byte_in_sector + bytes_to_copy)
            f1 == [f EXCEPT !.position = @ + bytes_to_copy]
        IN  IF f1.position % g.bytes_per_cluster = 0 /\ Len(data1) < size
            THEN Let([n \in {read_cluster_fat_entry(g, r.dev, f1.current_cluster)}
                 |-> IF n.err # FAT32_OK \/ n.value >= FAT32_FAT_ENTRY_EOC
                     THEN [err |-> FAT32_OK, dev |-> n.dev, file |-> f1,
                           data |-> data1, bytes_read |-> Len(data1)]
                     ELSE file_read_loop(g, n.dev,
                              [f1 EXCEPT !.current_cluster = n.value],
                              size, data1)])
            ELSE file_read_loop(g, r.dev, f1, size, data1)])

\* The number of bytes fat32_file_read sets out to read: size, cut to what
\* is left of the file after the position.
read_size_whole(f, size) == size

read_size(f, size) ==
    LET remaining == f.file_size - f.position
    IN  IF size > remaining THEN remaining ELSE size

\* fat32_file_read while the volume is ready.
fat32_file_read(g, dev, f, size) ==
    IF ~f.is_open
    THEN [err |-> FAT32_ERROR_INVALID_PARAMETER, dev |-> dev, file |-> f,
          data |-> <<>>, bytes_read |-> 0]
    ELSE IF f.position >= f.file_size
    THEN [err |-> FAT32_OK, dev |-> dev, file |-> f, data |-> <<>>,
          bytes_read |-> 0]
    ELSE file_read_loop(g, dev, f, read_size(f, size), <<>>)

fat32_file_seek(f, position) ==
    IF ~f.is_open THEN [err |-> FAT32_ERROR_INVALID_PARAMETER, file |-> f]
    ELSE [err |-> FAT32_OK, file |-> [f EXCEPT !.position = position]]

fat32_file_tell(f) == f.position
fat32_file_size(f) == f.file_size
fat32_file_eof(f) == f.position >= f.file_size

\* The walk of fat32_file_write to the last cluster of the chain
\* (fat32.c:1467-1481).
RECURSIVE write_find_last(_, _, _, _, _)
write_find_last(g, dev, cluster, i, current_clusters) ==
    IF ~(i < current_clusters)
    THEN [err |-> FAT32_OK, dev |-> dev, cluster |-> cluster]
    ELSE Let([n \in {read_cluster_fat_entry(g, dev, cluster)}
         |-> IF n.err # FAT32_OK
             THEN [err |-> n.err, dev |-> n.dev, cluster |-> cluster]
             ELSE write_find_last(g, n.dev, n.value, i + 1, current_clusters)])

\* The allocation loop of fat32_file_write (fat32.c:1484-1515).
RECURSIVE write_allocate(_, _, _, _, _, _, _)
write_allocate(g, dev, f, last_cluster, i, current_clusters, needed_clusters) ==
    IF ~(i < needed_clusters)
    THEN [err |-> FAT32_OK, dev |-> dev, file |-> f]
    ELSE
    Let([a \in {get_next_free_cluster(g, dev)}
    |-> IF a.err # FAT32_OK
        THEN [err |-> a.err, dev |-> a.dev, file |-> f]
        ELSE
        LET link == current_clusters > 0 \/ i > 0
            IN  Let([k \in {IF link
                 THEN write_cluster_fat_entry(g, a.dev, last_cluster, a.cluster)
                 ELSE [err |-> FAT32_OK, dev |-> a.dev]} |->
            LET f1 == IF link THEN f ELSE [f EXCEPT !.start_cluster = a.cluster]
        IN  IF k.err # FAT32_OK
            THEN [err |-> k.err, dev |-> k.dev, file |-> f1]
            ELSE Let([e \in {write_cluster_fat_entry(g, k.dev, a.cluster,
                                                  FAT32_FAT_ENTRY_EOC)}
                 |-> IF e.err # FAT32_OK
                     THEN [err |-> e.err, dev |-> e.dev, file |-> f1]
                     ELSE write_allocate(g, e.dev, f1, a.cluster, i + 1,
                                         current_clusters, needed_clusters)])])])

\* The walk of fat32_file_write to the cluster of file->position
\* (fat32.c:1518-1533).
RECURSIVE write_find_position(_, _, _, _, _)
write_find_position(g, dev, cluster, i, cluster_offset) ==
    IF ~(i < cluster_offset)
    THEN [err |-> FAT32_OK, dev |-> dev, cluster |-> cluster]
    ELSE Let([n \in {read_cluster_fat_entry(g, dev, cluster)}
         |-> IF n.err # FAT32_OK
             THEN [err |-> n.err, dev |-> n.dev, cluster |-> cluster]
             ELSE IF n.value >= FAT32_FAT_ENTRY_EOC
             THEN [err |-> FAT32_ERROR_INVALID_POSITION, dev |-> n.dev,
                   cluster |-> cluster]
             ELSE write_find_position(g, n.dev, n.value, i + 1, cluster_offset)])

\* The copy loop of fat32_file_write (fat32.c:1537-1579); src is the caller's
\* buffer, total_written what has been copied out of it.
RECURSIVE file_write_loop(_, _, _, _, _, _, _)
file_write_loop(g, dev, f, cluster, src, total_written, pos_in_file) ==
    IF ~(total_written < Len(src))
    THEN [err |-> FAT32_OK, dev |-> dev, file |-> f,
          pos_in_file |-> pos_in_file]
    ELSE
    LET offset_in_cluster == pos_in_file % g.bytes_per_cluster
        sector_in_cluster == offset_in_cluster \div FAT32_SECTOR_SIZE
        byte_in_sector == offset_in_cluster % FAT32_SECTOR_SIZE
        sector == U32(cluster_to_sector(g, cluster) + sector_in_cluster)
        IN  Let([r \in {read_sector(g, dev, sector)}
    |-> IF r.err # FAT32_OK
        THEN [err |-> r.err, dev |-> r.dev, file |-> f,
              pos_in_file |-> pos_in_file]
        ELSE
        LET bytes_to_write == Min(FAT32_SECTOR_SIZE - byte_in_sector,
                                  Len(src) - total_written)
            old == AsRaw(r.buf)
            new == [i \in 1..FAT32_SECTOR_SIZE |->
                      IF i > byte_in_sector
                           /\ i <= byte_in_sector + bytes_to_write
                      THEN src[total_written + i - byte_in_sector]
                      ELSE old[i]]
            IN  Let([w \in {write_sector(g, r.dev, sector, [k |-> "raw", c |-> new])} |->
            LET tw == total_written + bytes_to_write
            pos == pos_in_file + bytes_to_write
        IN  IF w.err # FAT32_OK
            THEN [err |-> w.err, dev |-> w.dev, file |-> f,
                  pos_in_file |-> pos_in_file]
            ELSE IF pos % g.bytes_per_cluster = 0 /\ tw < Len(src)
            THEN Let([n \in {read_cluster_fat_entry(g, w.dev, cluster)}
                 |-> IF n.err # FAT32_OK \/ n.value >= FAT32_FAT_ENTRY_EOC
                     THEN [err |-> FAT32_ERROR_DISK_FULL, dev |-> n.dev,
                           file |-> f, pos_in_file |-> pos]
                     ELSE file_write_loop(g, n.dev,
                              [f EXCEPT !.current_cluster = n.value],
                              n.value, src, tw, pos)])
            ELSE file_write_loop(g, w.dev, f, cluster, src, tw, pos)])])

\* A fat32_file_write that leaves the size in the directory entry alone.
write_size_to_entry_skipped(g, dev, f) == [err |-> FAT32_OK, dev |-> dev]

\* The update of the size field of the directory entry (fat32.c:1594-1607).
write_size_to_entry(g, dev, f) ==
    IF f.dir_entry_sector # 0 /\ f.dir_entry_offset < FAT32_SECTOR_SIZE
    THEN Let([r \in {read_sector(g, dev, f.dir_entry_sector)}
         |-> IF r.err # FAT32_OK THEN [err |-> r.err, dev |-> r.dev]
             ELSE write_sector(g, r.dev, f.dir_entry_sector,
                      [k |-> "dir",
                       c |-> [AsDir(r.buf) EXCEPT
                                ![f.dir_entry_offset \div FAT32_DIR_ENTRY_SIZE
                                    + 1].size = f.file_size]])])
    ELSE [err |-> FAT32_OK, dev |-> dev]

\* The end of fat32_file_write: the position moves to the end of the
\* written bytes and the size grows when the position passed it.
file_write_advance_always(f, pos_in_file) ==
    [f EXCEPT !.position = pos_in_file, !.file_size = pos_in_file]

file_write_advance(f, pos_in_file) ==
    [f EXCEPT !.position = pos_in_file,
              !.file_size = IF pos_in_file > @ THEN pos_in_file ELSE @]

\* fat32_file_write while the volume is ready; bytes_written stays 0 on
\* every early return.
fat32_file_write(g, dev, f, src) ==
    IF ~f.is_open
    THEN [err |-> FAT32_ERROR_INVALID_PARAMETER, dev |-> dev, file |-> f,
          bytes_written |-> 0]
    ELSE
    LET end_pos == U32(f.position + Len(src))
        needed_clusters == U32(end_pos + g.bytes_per_cluster - 1)
                             \div g.bytes_per_cluster
        current_clusters ==
            IF f.file_size = 0 THEN 1
            ELSE U32(f.file_size + g.bytes_per_cluster - 1)
                   \div g.bytes_per_cluster
        IN  Let([l \in {write_find_last(g, dev, f.start_cluster, 1, current_clusters)}
    |-> IF l.err # FAT32_OK
        THEN [err |-> l.err, dev |-> l.dev, file |-> f, bytes_written |-> 0]
        ELSE
        Let([a \in {write_allocate(g, l.dev, f, l.cluster, current_clusters,
                                current_clusters, needed_clusters)}
        |-> IF a.err # FAT32_OK
            THEN [err |-> a.err, dev |-> a.dev, file |-> a.file,
                  bytes_written |-> 0]
            ELSE
            Let([p \in {write_find_position(g, a.dev, a.file.start_cluster, 0,
                         a.file.position \div g.bytes_per_cluster)}
            |-> IF p.err # FAT32_OK
                THEN [err |-> p.err, dev |-> p.dev, file |-> a.file,
                      bytes_written |-> 0]
                ELSE
                Let([c \in {file_write_loop(g, p.dev,
                             [a.file EXCEPT !.current_cluster = p.cluster],
                             p.cluster, src, 0, a.file.position)}
                |-> IF c.err # FAT32_OK
                    THEN [err |-> c.err, dev |-> c.dev, file |-> c.file,
                          bytes_written |-> 0]
                    ELSE
                    LET f1 == file_write_advance(c.file, c.pos_in_file)
                        IN  Let([z \in {write_size_to_entry(g, c.dev, f1)}
                    |-> [err |-> z.err, dev |-> z.dev, file |-> f1,
                         bytes_written |-> Len(src)]])])])])])

\* fat32_file_delete and fat32_dir_delete while the volume is ready.
fat32_file_delete(g, dev, path) ==
    IF path = <<>> THEN [err |-> FAT32_ERROR_INVALID_PARAMETER, dev |-> dev]
    ELSE delete_entry(g, dev, path, FALSE)

fat32_dir_delete(g, dev, path) ==
    IF path = <<>> THEN [err |-> FAT32_ERROR_INVALID_PARAMETER, dev |-> dev]
    ELSE delete_entry(g, dev, path, TRUE)

-----------------------------------------------------------------------------
(* Directory creation.                                                     *)

\* The loop clearing the new directory cluster (fat32.c:1973-1982).
RECURSIVE clear_cluster(_, _, _, _)
clear_cluster(g, dev, sector, i) ==
    IF ~(i < g.boot_sector.sectors_per_cluster)
    THEN [err |-> FAT32_OK, dev |-> dev]
    ELSE Let([w \in {write_sector(g, dev, U32(sector + i), ZeroDirSector)}
         |-> IF w.err # FAT32_OK THEN w
             ELSE clear_cluster(g, w.dev, sector, i + 1)])

\* The cluster fat32_dir_create stores in ".." (fat32.c:1985-2009).
dir_create_parent(g, dev, path) ==
    LET base == IF path # <<>> /\ Head(path) = SLASH
                THEN g.boot_sector.root_cluster ELSE g.current_dir_cluster
        IN  Let([copy \in {path_copy_of(path)} |->
        LET last_slash == strrchr(copy, SLASH)
    IN  IF path # <<SLASH>> /\ last_slash > 1
        THEN Let([r \in {find_entry(g, dev, SubSeq(copy, 1, last_slash - 1))}
             |-> [dev |-> r.dev,
                  cluster |->
                      IF r.err = FAT32_OK
                           /\ HasAttr(r.entry.attr, FAT32_ATTR_DIRECTORY)
                      THEN IF r.entry.start_cluster # 0
                           THEN r.entry.start_cluster
                           ELSE g.boot_sector.root_cluster
                      ELSE base]])
        ELSE [dev |-> dev, cluster |-> base]])

ShortDot == <<DOT>> \o Spaces(10)
ShortDotDot == <<DOT, DOT>> \o Spaces(9)

\* fat32_dir_create while the volume is ready.
fat32_dir_create(g, dev, path) ==
    Let([n \in {new_entry(g, dev, path, FAT32_ATTR_DIRECTORY)}
    |-> IF n.err # FAT32_OK
        THEN [err |-> n.err, dev |-> n.dev, d |-> ZeroDir, ub |-> n.ub]
        ELSE
        LET d == [ZeroDir EXCEPT !.is_open = TRUE,
                                 !.start_cluster = n.file.start_cluster,
                                 !.current_cluster = n.file.start_cluster]
            first == cluster_to_sector(g, d.start_cluster)
            IN  Let([z \in {clear_cluster(g, n.dev, first, 0)}
        |-> IF z.err # FAT32_OK
            THEN [err |-> z.err, dev |-> z.dev, d |-> d, ub |-> n.ub]
            ELSE
            Let([p \in {dir_create_parent(g, z.dev, path)} |->
                Let([r \in {read_sector(g, p.dev, first)}
            |-> IF r.err # FAT32_OK
                THEN [err |-> r.err, dev |-> r.dev, d |-> d, ub |-> n.ub]
                ELSE
                LET dot == Slot(DOT, FAT32_ATTR_DIRECTORY, ShortDot, 0,
                                d.start_cluster, 0)
                    dotdot == Slot(DOT, FAT32_ATTR_DIRECTORY, ShortDotDot, 0,
                                   IF p.cluster = g.boot_sector.root_cluster
                                   THEN 0 ELSE p.cluster, 0)
                    IN  Let([w \in {write_sector(g, r.dev, first,
                             [k |-> "dir",
                              c |-> [AsDir(r.buf) EXCEPT ![1] = dot,
                                                         ![2] = dotdot]])}
                |-> [err |-> w.err, dev |-> w.dev, d |-> d, ub |-> n.ub]])])])])])

-----------------------------------------------------------------------------
(* Mounting.  Sector 0 of a card and the first sector of a volume are      *)
(* "bpb" sectors: sig is the 0x55AA signature, jump the first byte, parts  *)
(* the four partition table entries at offset 446, the rest the BPB.       *)

ZeroPart == [boot_indicator |-> 0, partition_type |-> 0, start_lba |-> 0]

ZeroBoot ==
    [sig |-> FALSE, jump |-> 0, parts |-> <<ZeroPart, ZeroPart, ZeroPart,
                                            ZeroPart>>,
     bytes_per_sector |-> 0, sectors_per_cluster |-> 0, num_fats |-> 0,
     reserved_sectors |-> 0, fat_size_16 |-> 0, fat_size_32 |-> 0,
     total_sectors_32 |-> 0, root_cluster |-> 0, fat32_info |-> 0]

\* The bytes of a sector as a boot sector.
AsBoot(sec) == IF sec.k = "bpb" THEN sec.c ELSE ZeroBoot

\* The smallest cluster count fat32_mount accepts (65525 on a card); the
\* modelled volumes are that much smaller.
MinClusterCount == ClusterCount

\* The statics of fat32.c as one record.
Globals ==
    [fat32_mounted |-> fat32_mounted, mount_status |-> mount_status,
     boot_sector |-> boot_sector, volume_start_block |-> volume_start_block,
     first_data_sector |-> first_data_sector,
     data_region_sectors |-> data_region_sectors,
     cluster_count |-> cluster_count, bytes_per_cluster |-> bytes_per_cluster,
     current_dir_cluster |-> current_dir_cluster]

\* The statics before any call (fat32.c:25-37).
InitGlobals ==
    [fat32_mounted |-> FALSE, mount_status |-> FAT32_OK,
     boot_sector |-> ZeroBoot, volume_start_block |-> 0,
     first_data_sector |-> 0, data_region_sectors |-> 0, cluster_count |-> 0,
     bytes_per_cluster |-> 0, current_dir_cluster |-> 0]

SetGlobals(g) ==
    /\ fat32_mounted' = g.fat32_mounted
    /\ mount_status' = g.mount_status
    /\ boot_sector' = g.boot_sector
    /\ volume_start_block' = g.volume_start_block
    /\ first_data_sector' = g.first_data_sector
    /\ data_region_sectors' = g.data_region_sectors
    /\ cluster_count' = g.cluster_count
    /\ bytes_per_cluster' = g.bytes_per_cluster
    /\ current_dir_cluster' = g.current_dir_cluster

\* sd_card_init of sdcard.c: a present card initialises.
sd_card_init(present) ==
    IF present THEN FAT32_OK ELSE FAT32_ERROR_INIT_FAILED

is_sector_mbr(sector) ==
    /\ sector.sig
    /\ \E i \in 1..4 : sector.parts[i].partition_type # 0

\* bytes_per_sector must be 512, 1024, 2048 or 4096: one, two, four or
\* eight times the sector.
is_sector_boot_sector(sector) ==
    /\ sector.sig
    /\ sector.jump \in {235, 233}
    /\ sector.bytes_per_sector \in {FAT32_SECTOR_SIZE, 2 * FAT32_SECTOR_SIZE,
                                    4 * FAT32_SECTOR_SIZE,
                                    8 * FAT32_SECTOR_SIZE}

IsPowerOfTwo(n) == n \in {1, 2, 4, 8, 16, 32, 64, 128}

is_valid_fat32_boot_sector_lax(bs) ==
    IF bs.bytes_per_sector # FAT32_SECTOR_SIZE
    THEN FAT32_ERROR_INVALID_FORMAT
    ELSE IF bs.sectors_per_cluster = 0 \/ bs.sectors_per_cluster > 128
              \/ ~IsPowerOfTwo(bs.sectors_per_cluster)
    THEN FAT32_ERROR_INVALID_FORMAT
    ELSE IF bs.num_fats = 0 \/ bs.num_fats > 2
    THEN FAT32_ERROR_INVALID_FORMAT
    ELSE IF bs.reserved_sectors = 0 THEN FAT32_ERROR_INVALID_FORMAT
    ELSE IF bs.fat_size_32 = 0
    THEN FAT32_ERROR_INVALID_FORMAT
    ELSE IF bs.total_sectors_32 = 0 THEN FAT32_ERROR_INVALID_FORMAT
    ELSE FAT32_OK

is_valid_fat32_boot_sector(bs) ==
    IF bs.bytes_per_sector # FAT32_SECTOR_SIZE
    THEN FAT32_ERROR_INVALID_FORMAT
    ELSE IF bs.sectors_per_cluster = 0 \/ bs.sectors_per_cluster > 128
              \/ ~IsPowerOfTwo(bs.sectors_per_cluster)
    THEN FAT32_ERROR_INVALID_FORMAT
    ELSE IF bs.num_fats = 0 \/ bs.num_fats > 2
    THEN FAT32_ERROR_INVALID_FORMAT
    ELSE IF bs.reserved_sectors = 0 THEN FAT32_ERROR_INVALID_FORMAT
    ELSE IF bs.fat_size_16 # 0 \/ bs.fat_size_32 = 0
    THEN FAT32_ERROR_INVALID_FORMAT
    ELSE IF bs.total_sectors_32 = 0 THEN FAT32_ERROR_INVALID_FORMAT
    ELSE FAT32_OK

fat32_unmount(g) ==
    [g EXCEPT !.fat32_mounted = FALSE, !.mount_status = FAT32_ERROR_NO_CARD,
              !.volume_start_block = 0, !.first_data_sector = 0,
              !.data_region_sectors = 0, !.cluster_count = 0,
              !.bytes_per_cluster = 0, !.current_dir_cluster = 0]

\* The partition loop of fat32_mount (fat32.c:301-325), from entry i on.
RECURSIVE mount_partition(_, _, _, _)
mount_partition(g, dev, mbr, i) ==
    IF i > 4 THEN [err |-> FAT32_OK, g |-> g, dev |-> dev, buf |-> mbr]
    ELSE
    LET e == mbr.parts[i]
    IN  IF e.boot_indicator # 0 /\ e.boot_indicator # 128
        THEN mount_partition(g, dev, mbr, i + 1)
        ELSE IF e.partition_type = 11 \/ e.partition_type = 12
        THEN LET g1 == [g EXCEPT !.volume_start_block = e.start_lba]
                 IN  Let([r \in {sd_read_block(dev, e.start_lba)}
             |-> [err |-> r.err, g |-> g1, dev |-> r.dev,
                  buf |-> AsBoot(r.buf)]])
        ELSE mount_partition(g, dev, mbr, i + 1)

\* fat32_mount from the copy of the boot sector on (fat32.c:343-365).
mount_volume(g, dev, buf) ==
    LET g1 == [g EXCEPT !.boot_sector = buf]
        IN  Let([v \in {is_valid_fat32_boot_sector(buf)}
    |-> IF v # FAT32_OK THEN [err |-> v, g |-> g1, dev |-> dev]
        ELSE
        LET fats == U32(buf.num_fats * buf.fat_size_32)
            drs == U32(buf.total_sectors_32 - fats)
            g2 == [g1 EXCEPT
                     !.bytes_per_cluster =
                         buf.sectors_per_cluster * FAT32_SECTOR_SIZE,
                     !.first_data_sector = U32(buf.reserved_sectors + fats),
                     !.data_region_sectors = drs,
                     !.cluster_count = drs \div buf.sectors_per_cluster]
        IN  IF g2.cluster_count < MinClusterCount
            THEN [err |-> FAT32_ERROR_INVALID_FORMAT, g |-> g2, dev |-> dev]
            ELSE [err |-> FAT32_OK,
                  g |-> [g2 EXCEPT !.current_dir_cluster = buf.root_cluster,
                                   !.fat32_mounted = TRUE],
                  dev |-> dev]])

\* fat32_mount from the initialisation of the card on (fat32.c:282-365).
mount_card(g, present, dev) ==
    IF sd_card_init(present) # FAT32_OK
    THEN [err |-> sd_card_init(present), g |-> g, dev |-> dev]
    ELSE
    Let([r \in {sd_read_block(dev, 0)}
    |-> IF r.err # FAT32_OK THEN [err |-> r.err, g |-> g, dev |-> r.dev]
        ELSE IF is_sector_mbr(AsBoot(r.buf))
        THEN Let([m \in {mount_partition([g EXCEPT !.volume_start_block = 0],
                                      r.dev, AsBoot(r.buf), 1)}
             |-> IF m.err # FAT32_OK
                 THEN [err |-> m.err, g |-> m.g, dev |-> m.dev]
                 ELSE IF m.g.volume_start_block = 0
                 THEN [err |-> FAT32_ERROR_INVALID_FORMAT, g |-> m.g,
                       dev |-> m.dev]
                 ELSE mount_volume(m.g, m.dev, m.buf)])
        ELSE IF is_sector_boot_sector(AsBoot(r.buf))
        THEN mount_volume([g EXCEPT !.volume_start_block = 0], r.dev,
                          AsBoot(r.buf))
        ELSE [err |-> FAT32_ERROR_INVALID_FORMAT, g |-> g, dev |-> r.dev]])

fat32_mount_always(g, present, dev) ==
    IF ~present
    THEN [err |-> FAT32_ERROR_NO_CARD, g |-> fat32_unmount(g), dev |-> dev]
    ELSE mount_card(g, present, dev)

fat32_mount(g, present, dev) ==
    IF ~present
    THEN [err |-> FAT32_ERROR_NO_CARD, g |-> fat32_unmount(g), dev |-> dev]
    ELSE IF g.fat32_mounted THEN [err |-> FAT32_OK, g |-> g, dev |-> dev]
    ELSE mount_card(g, present, dev)

fat32_is_mounted(g) == g.fat32_mounted

\* fat32_is_ready: ready says what it returns.
fat32_is_ready(g, present, dev) ==
    IF present
    THEN IF ~g.fat32_mounted
         THEN Let([m \in {fat32_mount(g, present, dev)}
              |-> [ready |-> m.err = FAT32_OK,
                   g |-> [m.g EXCEPT !.mount_status = m.err], dev |-> m.dev]])
         ELSE [ready |-> g.mount_status = FAT32_OK, g |-> g, dev |-> dev]
    ELSE Let([g1 \in {IF g.fat32_mounted THEN fat32_unmount(g) ELSE g}
         |-> [ready |-> FALSE,
              g |-> [g1 EXCEPT !.mount_status = FAT32_ERROR_NO_CARD],
              dev |-> dev]])

on_sd_card_detect(g, present) ==
    IF ~present /\ fat32_is_mounted(g)
    THEN [fat32_unmount(g) EXCEPT !.mount_status = FAT32_ERROR_NO_CARD]
    ELSE g

-----------------------------------------------------------------------------
(* Cards.                                                                  *)

\* A card without blocks: what the driver sees when no card answers.
NoBlocks == [lba \in {} |-> ZeroRawSector]

\* The block device a call starts with.
CardDev == Dev(IF card_present THEN blocks ELSE NoBlocks)

\* The boot sector of a volume of ClusterCount clusters of spc sectors: one
\* reserved sector, two FATs of one sector, the root directory in cluster 2.
Bpb(spc) ==
    [ZeroBoot EXCEPT !.sig = TRUE, !.jump = 235,
                     !.bytes_per_sector = FAT32_SECTOR_SIZE,
                     !.sectors_per_cluster = spc, !.num_fats = 2,
                     !.reserved_sectors = 1, !.fat_size_32 = 1,
                     !.total_sectors_32 = 3 + ClusterCount * spc,
                     !.root_cluster = 2]

\* A master boot record whose first partition is a FAT32 volume at start.
Mbr(start) ==
    [ZeroBoot EXCEPT !.sig = TRUE,
                     !.parts[1] = [boot_indicator |-> 128,
                                   partition_type |-> 12,
                                   start_lba |-> start]]

\* The byte at offset i of the files the model writes and finds.
PayloadByte(i) == (i % 251) + 1

Payload(len) == [i \in 1..len |-> PayloadByte(i - 1)]

\* The len bytes of that stream from offset first on.
PayloadAt(first, len) == [i \in 1..len |-> PayloadByte(first + i - 1)]

\* A FAT sector: fat maps the allocated clusters to their entries.
FatSector(fat) ==
    [k |-> "fat",
     c |-> [i \in 1..FatEntriesPerSector |->
              IF i = 1 THEN FAT32_FAT_ENTRY_EOC
              ELSE IF i = 2 THEN LowBits
              ELSE IF (i - 1) \in DOMAIN fat THEN fat[i - 1]
              ELSE FAT32_FAT_ENTRY_FREE]]

\* The sector of a directory that holds slots (a sequence) from slot
\* number first on.
DirSector(slots, first) ==
    [k |-> "dir",
     c |-> [i \in 1..SlotsPerSector |->
              IF first + i - 1 <= Len(slots) THEN slots[first + i - 1]
              ELSE ZeroSlot]]

\* The sector of a file that holds bytes (a sequence) from offset first on.
RawSector(bytes, first) ==
    [k |-> "raw",
     c |-> [i \in 1..FAT32_SECTOR_SIZE |->
              IF first + i <= Len(bytes) THEN bytes[first + i] ELSE 0]]

\* A card: start is the LBA of the volume (0: no partition table), fat the
\* allocated clusters, root the slots of the root directory along chain
\* rootchain, and data the bytes stored along chain datachain.
Card(spc, start, fat, rootchain, root, datachain, data) ==
    LET fds == 3
        per == spc * FAT32_SECTOR_SIZE
        slotsper == spc * SlotsPerSector
        sector(s) ==
            IF s = 0 THEN [k |-> "bpb", c |-> Bpb(spc)]
            ELSE IF s < fds THEN FatSector(fat)
            ELSE
            LET cl == (s - fds) \div spc + 2
                sic == (s - fds) % spc
            IN  IF \E i \in 1..Len(rootchain) : rootchain[i] = cl
                THEN LET i == CHOOSE i \in 1..Len(rootchain) :
                                  rootchain[i] = cl
                     IN  DirSector(root, (i - 1) * slotsper
                                           + sic * SlotsPerSector + 1)
                ELSE IF \E i \in 1..Len(datachain) : datachain[i] = cl
                THEN LET i == CHOOSE i \in 1..Len(datachain) :
                                  datachain[i] = cl
                     IN  RawSector(data, (i - 1) * per
                                           + sic * FAT32_SECTOR_SIZE)
                ELSE ZeroRawSector
    IN  [lba \in 0..(start + 3 + ClusterCount * spc - 1) |->
           IF lba < start
           THEN (IF lba = 0 THEN [k |-> "bpb", c |-> Mbr(start)]
                 ELSE ZeroRawSector)
           ELSE sector(lba - start)]

\* The FAT entries of chain: each cluster points at the next, the last is
\* the end of chain.
RECURSIVE ChainFat(_)
ChainFat(chain) ==
    IF Len(chain) = 0 THEN <<>>
    ELSE IF Len(chain) = 1 THEN (Head(chain) :> FAT32_FAT_ENTRY_EOC)
    ELSE (Head(chain) :> chain[2]) @@ ChainFat(Tail(chain))

\* An 8.3 slot without long name.
ShortSlot(shortname, attr, clus, size) ==
    Slot(shortname[1], attr, shortname, 0, clus, size)

-----------------------------------------------------------------------------
(* Calls.  A call of the API is one action: the ready-check, then the      *)
(* function's body on the geometry the ready-check left.                   *)

\* What a call leaves behind: the statics g, the device, the caller's
\* handles, the output parameters and whether it ran into undefined
\* behaviour.
Res(err, g, dev, f, d, o, ub) ==
    [err |-> err, g |-> g, dev |-> dev, file |-> f, dir |-> d, out |-> o,
     ub |-> ub]

\* The ready-check every gated function starts with.
Ready == fat32_is_ready(Globals, card_present, CardDev)

\* The return of a gated function whose ready-check failed.
NotReady == Res(Ready.g.mount_status, Ready.g, Ready.dev, file, dir, <<>>,
                FALSE)

\* The step of a call named name with argument arg that ends as r.
Do(name, arg, r) ==
    /\ SetGlobals(r.g)
    /\ blocks' = IF card_present THEN r.dev.b ELSE blocks
    /\ file' = r.file
    /\ dir' = r.dir
    /\ op' = [name |-> name, arg |-> arg]
    /\ ret' = r.err
    /\ out' = r.out
    /\ io' = r.dev.n
    /\ UNCHANGED <<card_present, fat32_initialised, pc, rd>>

FileCreateCall(path) ==
    IF ~Ready.ready THEN NotReady
    ELSE Let([r \in {fat32_file_create(Ready.g, Ready.dev, path)}
         |-> Res(r.err, Ready.g, r.dev, r.file, dir, <<>>, r.ub)])

FileOpenCall(path) ==
    IF path = <<>>
    THEN Res(FAT32_ERROR_INVALID_PARAMETER, Globals, CardDev, file, dir,
             <<>>, FALSE)
    ELSE IF Len(path) > FAT32_MAX_PATH_LEN
    THEN Res(FAT32_ERROR_INVALID_PATH, Globals, CardDev, file, dir, <<>>,
             FALSE)
    ELSE IF ~Ready.ready THEN NotReady
    ELSE Let([r \in {fat32_file_open(Ready.g, Ready.dev, path)}
         |-> Res(r.err, Ready.g, r.dev, r.file, dir, <<>>, FALSE)])

FileCloseCall ==
    Res(FAT32_OK, Globals, CardDev, fat32_file_close(file), dir, <<>>, FALSE)

FileReadCall(size) ==
    IF ~file.is_open
    THEN Res(FAT32_ERROR_INVALID_PARAMETER, Globals, CardDev, file, dir,
             <<>>, FALSE)
    ELSE IF ~Ready.ready THEN NotReady
    ELSE Let([r \in {fat32_file_read(Ready.g, Ready.dev, file, size)}
         |-> Res(r.err, Ready.g, r.dev, r.file, dir,
                 SubSeq(r.data, 1, r.bytes_read), FALSE)])

FileWriteCall(src) ==
    IF ~file.is_open
    THEN Res(FAT32_ERROR_INVALID_PARAMETER, Globals, CardDev, file, dir,
             <<>>, FALSE)
    ELSE IF ~Ready.ready THEN NotReady
    ELSE Let([r \in {fat32_file_write(Ready.g, Ready.dev, file, src)}
         |-> Res(r.err, Ready.g, r.dev, r.file, dir, <<>>, FALSE)])

FileSeekCall(position) ==
    Let([r \in {fat32_file_seek(file, position)}
    |-> Res(r.err, Globals, CardDev, r.file, dir, <<>>, FALSE)])

FileDeleteCall(path) ==
    IF path = <<>>
    THEN Res(FAT32_ERROR_INVALID_PARAMETER, Globals, CardDev, file, dir,
             <<>>, FALSE)
    ELSE IF ~Ready.ready THEN NotReady
    ELSE Let([r \in {fat32_file_delete(Ready.g, Ready.dev, path)}
         |-> Res(r.err, Ready.g, r.dev, file, dir, <<>>, FALSE)])

DirDeleteCall(path) ==
    IF path = <<>>
    THEN Res(FAT32_ERROR_INVALID_PARAMETER, Globals, CardDev, file, dir,
             <<>>, FALSE)
    ELSE IF ~Ready.ready THEN NotReady
    ELSE Let([r \in {fat32_dir_delete(Ready.g, Ready.dev, path)}
         |-> Res(r.err, Ready.g, r.dev, file, dir, <<>>, FALSE)])

DirCreateCall(path) ==
    IF ~Ready.ready THEN [NotReady EXCEPT !.dir = ZeroDir]
    ELSE Let([r \in {fat32_dir_create(Ready.g, Ready.dev, path)}
         |-> Res(r.err, Ready.g, r.dev, file, r.d, <<>>, r.ub)])

-----------------------------------------------------------------------------
(* File I/O on a mounted volume.                                           *)

\* Writes per run.
MaxWrites == 1

PathA == Str(<<"/", "a", ".", "t", "x", "t">>)
PathOld == Str(<<"/", "o", "l", "d", ".", "b", "i", "n">>)
ShortOld == Str(<<"O", "L", "D", " ", " ", " ", " ", " ", "B", "I", "N">>)

\* The chain and the size of the file the cards come with: three clusters
\* out of order, the last one half a sector full.
OldChain == <<3, 6, 4>>
OldSize(spc) == 2 * spc * FAT32_SECTOR_SIZE + FAT32_SECTOR_SIZE \div 2

\* A card with /old.bin in a one-cluster root directory.
FileCard(spc, start) ==
    Card(spc, start, (2 :> FAT32_FAT_ENTRY_EOC) @@ ChainFat(OldChain), <<2>>,
         <<ShortSlot(ShortOld, FAT32_ATTR_ARCHIVE, 3, OldSize(spc))>>,
         OldChain, Payload(OldSize(spc)))

\* The statics after fat32_init() and a first ready-check on card.
MountedOn(card) ==
    fat32_is_ready(fat32_unmount(InitGlobals), TRUE, Dev(card)).g

\* What the properties remember of the calls made so far: rt is how far the
\* round trip create, write, close, open, read has come and blen the length
\* written in it; pos0 is the position at which the last file_read started,
\* after_seek whether the call before it was a file_seek, reads_only whether
\* the handle has only been read since it was opened; wpos and wsize are
\* the position and the size of the handle when the last call, a
\* file_write, started.
MonInit ==
    [rt |-> "none", blen |-> 0, pos0 |-> 0, after_seek |-> FALSE,
     reads_only |-> FALSE, writes |-> 0, ub |-> FALSE, wpos |-> 0,
     wsize |-> 0]

\* InitMounted without the card and the statics.
InitCaller ==
    /\ file = ZeroFile
    /\ dir = ZeroDir
    /\ op = [name |-> "none", arg |-> 0]
    /\ ret = FAT32_OK
    /\ out = <<>>
    /\ io = 0
    /\ pc = "idle"
    /\ rd = <<>>

\* The globals of a state in which card is in the slot and mounted.
InitMounted(card) ==
    /\ card_present = TRUE
    /\ blocks = card
    /\ fat32_initialised = TRUE
    /\ fat32_mounted = MountedOn(card).fat32_mounted
    /\ mount_status = MountedOn(card).mount_status
    /\ boot_sector = MountedOn(card).boot_sector
    /\ volume_start_block = MountedOn(card).volume_start_block
    /\ first_data_sector = MountedOn(card).first_data_sector
    /\ data_region_sectors = MountedOn(card).data_region_sectors
    /\ cluster_count = MountedOn(card).cluster_count
    /\ bytes_per_cluster = MountedOn(card).bytes_per_cluster
    /\ current_dir_cluster = MountedOn(card).current_dir_cluster
    /\ InitCaller

Init ==
    /\ InitMounted(FileCard(2, 0))
    /\ mon = MonInit

\* The monitor after a call other than file_read.
Seen(fields) ==
    [fields EXCEPT !.pos0 = 0, !.after_seek = FALSE, !.wpos = 0, !.wsize = 0]

FileCreate ==
    \E r \in {FileCreateCall(PathA)} :
        /\ Do("file_create", PathA, r)
        /\ mon' = Seen([mon EXCEPT
                          !.rt = IF r.err = FAT32_OK THEN "created"
                                 ELSE "none",
                          !.blen = 0, !.reads_only = FALSE,
                          !.ub = @ \/ r.ub])

FileOpen ==
    \E path \in {PathA, PathOld} :
        \E r \in {FileOpenCall(path)} :
            /\ Do("file_open", path, r)
            /\ mon' = Seen([mon EXCEPT
                              !.rt = IF r.err = FAT32_OK /\ path = PathA
                                          /\ mon.rt = "closed"
                                     THEN "opened" ELSE "none",
                              !.blen = IF r.err = FAT32_OK /\ path = PathA
                                            /\ mon.rt = "closed"
                                       THEN @ ELSE 0,
                              !.reads_only = (r.err = FAT32_OK)])

FileClose ==
    /\ Do("file_close", 0, FileCloseCall)
    /\ mon' = Seen([mon EXCEPT
                      !.rt = IF mon.rt = "written" THEN "closed" ELSE "none",
                      !.blen = IF mon.rt = "written" THEN @ ELSE 0,
                      !.reads_only = FALSE])

WriteSizes ==
    {FAT32_SECTOR_SIZE + 1, bytes_per_cluster, 2 * bytes_per_cluster + 1}

FileWrite ==
    /\ mon.writes < MaxWrites
    /\ file.is_open
    /\ \E len \in WriteSizes :
        \E r \in {FileWriteCall(PayloadAt(file.position, len))} :
            LET rt == r.err = FAT32_OK /\ mon.rt = "created"
        IN  /\ Do("file_write", len, r)
            /\ mon' = [Seen([mon EXCEPT
                               !.rt = IF rt THEN "written" ELSE "none",
                               !.blen = IF rt THEN len ELSE 0,
                               !.writes = @ + 1, !.reads_only = FALSE])
                          EXCEPT !.wpos = file.position,
                                 !.wsize = file.file_size]

ReadSizes == {bytes_per_cluster, 3 * bytes_per_cluster}

FileRead ==
    /\ file.is_open
    /\ \E size \in ReadSizes :
        \E r \in {FileReadCall(size)} :
            LET rt == mon.rt = "opened" /\ size >= mon.blen
        IN  /\ Do("file_read", size, r)
            /\ mon' = [mon EXCEPT !.rt = IF rt THEN "read" ELSE "none",
                                  !.blen = IF rt THEN @ ELSE 0,
                                  !.pos0 = file.position,
                                  !.after_seek = (op.name = "file_seek"),
                                  !.wpos = 0, !.wsize = 0]

SeekPositions == {0, bytes_per_cluster}

FileSeek ==
    /\ file.is_open
    /\ \E position \in SeekPositions :
        /\ Do("file_seek", position, FileSeekCall(position))
        /\ mon' = Seen([mon EXCEPT !.rt = "none", !.blen = 0,
                                   !.reads_only = FALSE])

Next ==
    \/ FileCreate
    \/ FileOpen
    \/ FileClose
    \/ FileWrite
    \/ FileRead
    \/ FileSeek

Spec == Init /\ [][Next]_vars

-----------------------------------------------------------------------------
(* What a file holds: the bytes along its cluster chain on the card.       *)

\* The FAT entry of cluster on card b.
FatOf(g, b, cluster) ==
    AsFat(b[g.volume_start_block + fat_sector_of(g, cluster)])
        [fat_index_of(cluster)] % (LowBits + 1)

\* The cluster at index i (from 0) of the chain that starts at cluster; 0
\* when the chain is shorter.
RECURSIVE ChainAt(_, _, _, _)
ChainAt(g, b, cluster, i) ==
    IF cluster < 2 \/ cluster >= g.cluster_count + 2 THEN 0
    ELSE IF i = 0 THEN cluster
    ELSE ChainAt(g, b, FatOf(g, b, cluster), i - 1)

\* The byte at offset i of the file that starts at cluster start; -1 past
\* the end of its chain.
ByteAt(g, b, start, i) ==
    Let([c \in {ChainAt(g, b, start, i \div g.bytes_per_cluster)} |->
        LET s == g.volume_start_block + cluster_to_sector(g, c)
               + (i % g.bytes_per_cluster) \div FAT32_SECTOR_SIZE
    IN  IF c = 0 THEN -1 ELSE AsRaw(b[s])[(i % FAT32_SECTOR_SIZE) + 1]])

\* The len bytes from offset first on of the file behind handle f.
FileBytes(g, b, f, first, len) ==
    [j \in 1..len |-> ByteAt(g, b, f.start_cluster, first + j - 1)]

-----------------------------------------------------------------------------
(* Properties of file I/O.                                                 *)

\* C1: round-trip I/O.  After file_create(p), file_write(B), file_close,
\* file_open(p) and one file_read of at least |B| bytes, the read has
\* returned OK with exactly the bytes of B, and the size of the reopened
\* handle is |B|.
RoundTrip ==
    mon.rt = "read" =>
        /\ ret = FAT32_OK
        /\ out = Payload(mon.blen)
        /\ file.file_size = mon.blen
        /\ ~mon.ub

\* A round trip of a payload that spans three clusters has been made.
RoundTripDone ==
    /\ mon.rt = "read"
    /\ op.name = "file_read"
    /\ mon.blen > 2 * bytes_per_cluster
    /\ Len(out) = mon.blen

\* C2: after file_seek(f, pos) with pos < file_size, the next file_read
\* returns the bytes of the file from offset pos on, whatever cluster the
\* handle had cached before the seek.
SeekThenRead ==
    (op.name = "file_read" /\ mon.after_seek /\ mon.pos0 < file.file_size) =>
        /\ ret = FAT32_OK
        /\ out = FileBytes(Globals, blocks, file, mon.pos0,
                           Min(op.arg, file.file_size - mon.pos0))

\* C3: successive file_read calls on a handle return consecutive bytes of
\* the file, also when a read ends exactly on a cluster boundary, and inside
\* a cluster the handle's cluster is the one the chain has at that index.
ConsecutiveReads ==
    (op.name = "file_read" /\ mon.reads_only /\ ret = FAT32_OK) =>
        /\ out = FileBytes(Globals, blocks, file, mon.pos0,
                           Min(op.arg, Max(0, file.file_size - mon.pos0)))
        /\ file.position % bytes_per_cluster # 0 =>
               file.current_cluster =
                   ChainAt(Globals, blocks, file.start_cluster,
                           file.position \div bytes_per_cluster)

-----------------------------------------------------------------------------
(* Volume information and the current directory.                           *)

\* The loop of fat32_get_volume_name over the root directory
\* (fat32.c:505-516): the name of the first entry with the volume
\* attribute, the empty name when there is none.
RECURSIVE volume_name_loop(_, _, _)
volume_name_loop(g, dev, d) ==
    Let([r \in {fat32_dir_read(g, dev, d)}
    |-> IF r.err # FAT32_OK \/ r.entry.filename = <<>>
        THEN [err |-> FAT32_OK, dev |-> r.dev, name |-> <<>>]
        ELSE IF HasAttr(r.entry.attr, FAT32_ATTR_VOLUME_ID)
        THEN [err |-> FAT32_OK, dev |-> r.dev,
              name |-> SubSeq(r.entry.filename, 1,
                              Min(Len(r.entry.filename), 11))]
        ELSE volume_name_loop(g, r.dev, r.d)])

\* fat32_get_volume_name with a buffer of 12 bytes, the volume ready.
fat32_get_volume_name(g, dev) ==
    volume_name_loop(g, dev, OpenDirAt(g.boot_sector.root_cluster))

\* The search of fat32_get_current_dir for ".." (fat32.c:1723-1736).
RECURSIVE find_dotdot(_, _, _, _)
find_dotdot(g, dev, d, entry_count) ==
    Let([r \in {fat32_dir_read(g, dev, d)}
    |-> IF r.err # FAT32_OK \/ r.entry.filename = <<>>
        THEN [found |-> FALSE, dev |-> r.dev, cluster |-> 0]
        ELSE IF HasAttr(r.entry.attr, FAT32_ATTR_DIRECTORY)
                  /\ r.entry.filename = <<DOT, DOT>>
        THEN [found |-> TRUE, dev |-> r.dev,
              cluster |-> IF r.entry.start_cluster # 0
                          THEN r.entry.start_cluster
                          ELSE g.boot_sector.root_cluster]
        ELSE IF entry_count + 1 > 2
        THEN [found |-> FALSE, dev |-> r.dev, cluster |-> 0]
        ELSE find_dotdot(g, r.dev, r.d, entry_count + 1)])

\* Its search of the parent for the name of cluster (fat32.c:1751-1761).
RECURSIVE find_name_of(_, _, _, _)
find_name_of(g, dev, d, cluster) ==
    Let([r \in {fat32_dir_read(g, dev, d)}
    |-> IF r.err # FAT32_OK \/ r.entry.filename = <<>>
        THEN [found |-> FALSE, dev |-> r.dev, name |-> <<>>]
        ELSE IF HasAttr(r.entry.attr, FAT32_ATTR_DIRECTORY)
                  /\ r.entry.start_cluster = cluster
                  /\ r.entry.filename # <<DOT>>
                  /\ r.entry.filename # <<DOT, DOT>>
        THEN [found |-> TRUE, dev |-> r.dev, name |-> r.entry.filename]
        ELSE find_name_of(g, r.dev, r.d, cluster)])

\* Its walk up the tree (fat32.c:1708-1769); components holds the names
\* found so far, innermost first.
RECURSIVE walk_up(_, _, _, _)
walk_up(g, dev, cluster, components) ==
    IF cluster = g.boot_sector.root_cluster \/ ~(Len(components) < 16)
    THEN [dev |-> dev, components |-> components]
    ELSE
    Let([p \in {find_dotdot(g, dev, OpenDirAt(cluster), 0)}
    |-> IF ~p.found THEN [dev |-> p.dev, components |-> components]
        ELSE
        Let([n \in {find_name_of(g, p.dev, OpenDirAt(p.cluster), cluster)}
        |-> IF ~n.found THEN [dev |-> n.dev, components |-> components]
            ELSE walk_up(g, n.dev, p.cluster, Append(components, n.name))])])

\* The path built from the components, outermost first, in a buffer of
\* FAT32_MAX_PATH_LEN bytes (fat32.c:1772-1781).
RECURSIVE build_path(_, _)
build_path(components, path) ==
    IF components = <<>> THEN (IF path = <<>> THEN <<SLASH>> ELSE path)
    ELSE LET c == components[Len(components)]
             room == FAT32_MAX_PATH_LEN - 1
             p1 == SubSeq(path \o <<SLASH>>, 1,
                          Min(Len(path) + 1, room))
             p2 == SubSeq(p1 \o c, 1, Min(Len(p1) + Len(c), room))
         IN  build_path(SubSeq(components, 1, Len(components) - 1), p2)

\* fat32_get_current_dir with a buffer of FAT32_MAX_PATH_LEN bytes, the
\* volume ready.
fat32_get_current_dir(g, dev) ==
    IF g.current_dir_cluster = g.boot_sector.root_cluster
    THEN [err |-> FAT32_OK, dev |-> dev, path |-> <<SLASH>>]
    ELSE Let([w \in {walk_up(g, dev, g.current_dir_cluster, <<>>)}
         |-> [err |-> FAT32_OK, dev |-> w.dev,
              path |-> build_path(w.components, <<>>)]])

\* fat32_set_current_dir while the volume is ready: the new statics.
fat32_set_current_dir_eager(g, dev, path) ==
    Let([r \in {fat32_dir_open(g, dev, path)}
    |-> [err |-> r.err, dev |-> r.dev,
         g |-> [g EXCEPT !.current_dir_cluster = r.d.start_cluster]]])

fat32_set_current_dir(g, dev, path) ==
    Let([r \in {fat32_dir_open(g, dev, path)}
    |-> IF r.err # FAT32_OK THEN [err |-> r.err, dev |-> r.dev, g |-> g]
        ELSE [err |-> FAT32_OK, dev |-> r.dev,
              g |-> [g EXCEPT !.current_dir_cluster = r.d.start_cluster]]])

\* fat32_init: nothing when already initialised, else the statics after
\* fat32_unmount.
fat32_init(g, initialised) == IF initialised THEN g ELSE fat32_unmount(g)

\* The manual count of fat32_get_free_space (fat32.c:441-457).
RECURSIVE count_free_clusters(_, _, _, _)
count_free_clusters(g, dev, sector, free_clusters) ==
    IF ~(sector < g.boot_sector.fat_size_32)
    THEN [err |-> FAT32_OK, dev |-> dev,
          free_space |-> free_clusters * g.bytes_per_cluster]
    ELSE Let([r \in {read_sector(g, dev,
                                 g.boot_sector.reserved_sectors + sector)}
         |-> IF r.err # FAT32_OK
             THEN [err |-> r.err, dev |-> r.dev, free_space |-> 0]
             ELSE count_free_clusters(g, r.dev, sector + 1,
                      free_clusters
                        + Cardinality({i \in 1..FatEntriesPerSector :
                              AsFat(r.buf)[i] % (LowBits + 1) = 0}))])

\* fat32_get_free_space while the volume is ready.
fat32_get_free_space(g, dev) ==
    Let([r \in {read_sector(g, dev, g.boot_sector.fat32_info)}
    |-> IF r.err # FAT32_OK
        THEN [err |-> r.err, dev |-> r.dev, free_space |-> 0]
        ELSE IF /\ AsInfo(r.buf).sigs
                /\ AsInfo(r.buf).free_count # WordRange - 1
                /\ AsInfo(r.buf).free_count <= g.cluster_count
        THEN [err |-> FAT32_OK, dev |-> r.dev,
              free_space |-> AsInfo(r.buf).free_count * g.bytes_per_cluster]
        ELSE count_free_clusters(g, r.dev, 0, 0)])

\* out is *free_space.
GetFreeSpaceCall ==
    IF ~Ready.ready THEN NotReady
    ELSE Let([r \in {fat32_get_free_space(Ready.g, Ready.dev)}
         |-> Res(r.err, Ready.g, r.dev, file, dir,
                 IF r.err = FAT32_OK THEN <<r.free_space>> ELSE <<>>,
                 FALSE)])

GetStatusCall == Res(Ready.g.mount_status, Ready.g, Ready.dev, file, dir,
                     <<>>, FALSE)

GetVolumeNameCall ==
    IF ~Ready.ready THEN NotReady
    ELSE Let([r \in {fat32_get_volume_name(Ready.g, Ready.dev)}
         |-> Res(r.err, Ready.g, r.dev, file, dir, r.name, FALSE)])

GetCurrentDirCall ==
    IF ~Ready.ready THEN NotReady
    ELSE Let([r \in {fat32_get_current_dir(Ready.g, Ready.dev)}
         |-> Res(r.err, Ready.g, r.dev, file, dir, r.path, FALSE)])

SetCurrentDirCall(path) ==
    IF path = <<>>
    THEN Res(FAT32_ERROR_INVALID_PARAMETER, Globals, CardDev, file, dir,
             <<>>, FALSE)
    ELSE IF ~Ready.ready THEN NotReady
    ELSE Let([r \in {fat32_set_current_dir(Ready.g, Ready.dev, path)}
         |-> Res(r.err, r.g, r.dev, file, dir, <<>>, FALSE)])

MountCall ==
    Let([m \in {fat32_mount(Globals, card_present, CardDev)}
    |-> Res(m.err, m.g, m.dev, file, dir, <<>>, FALSE)])

UnmountCall ==
    Res(FAT32_OK, fat32_unmount(Globals), CardDev, file, dir, <<>>, FALSE)

-----------------------------------------------------------------------------
(* Mounting, unmounting and the card coming and going.                     *)

PathRoot == <<SLASH>>
PathSub == Str(<<"/", "s", "u", "b">>)
ShortSub == Str(<<"S", "U", "B">>) \o Spaces(8)
ShortLabel == Str(<<"P", "I", "C", "O">>) \o Spaces(7)

\* card with the sectors of cluster holding the directory slots.
CardWithDir(card, spc, start, cluster, slots) ==
    LET first == start + 3 + (cluster - 2) * spc
    IN  [lba \in DOMAIN card |->
           IF lba >= first /\ lba < first + spc
           THEN DirSector(slots, (lba - first) * SlotsPerSector + 1)
           ELSE card[lba]]

\* A volume whose root directory holds the directory /sub (cluster 3) and,
\* when labelled, a volume label.
MountCard(start, labelled) ==
    CardWithDir(
        Card(2, start,
             (2 :> FAT32_FAT_ENTRY_EOC) @@ (3 :> FAT32_FAT_ENTRY_EOC), <<2>>,
             (IF labelled
              THEN <<ShortSlot(ShortLabel, FAT32_ATTR_VOLUME_ID, 0, 0)>>
              ELSE <<>>)
               \o <<ShortSlot(ShortSub, FAT32_ATTR_DIRECTORY, 3, 0)>>,
             <<>>, <<>>),
        2, start, 3,
        <<ShortSlot(ShortDot, FAT32_ATTR_DIRECTORY, 3, 0),
          ShortSlot(ShortDotDot, FAT32_ATTR_DIRECTORY, 0, 0)>>)

\* card with its boot sector replaced.
CardWithBoot(card, start, bs) ==
    [card EXCEPT ![start] = [k |-> "bpb", c |-> bs]]

\* A card formatted with sectors twice the size, and one with a volume of
\* too few clusters.
WideSectorCard ==
    CardWithBoot(MountCard(0, FALSE), 0,
                 [Bpb(2) EXCEPT !.bytes_per_sector = 2 * FAT32_SECTOR_SIZE])
SmallCard ==
    CardWithBoot(MountCard(0, FALSE), 0,
                 [Bpb(2) EXCEPT !.total_sectors_32 = @ - 2])

ValidCards == {MountCard(0, FALSE), MountCard(1, TRUE)}
MountCards == ValidCards \cup {WideSectorCard, SmallCard}

\* The calls that start with the ready-check, as the mount specification
\* makes them.
GatedCalls ==
    {"get_status", "get_volume_name", "get_current_dir", "set_current_dir"}

\* What the properties remember: mount_ok says that fat32_mount returned
\* OK and that since then the card stayed in and nothing unmounted;
\* cwd_moved that the current directory was set to other than the root
\* since the volume was mounted; absent_seen that a ready-check ran since
\* the card left; returned that the card came back after that and no gated
\* call was made since; first_back that the last call was the first gated
\* call after the card came back; remount that the last call was
\* fat32_mount on a mounted volume with the card in.
MonMountInit ==
    [mount_ok |-> FALSE, cwd_moved |-> FALSE, absent_seen |-> FALSE,
     returned |-> FALSE, first_back |-> FALSE, remount |-> FALSE]

\* The state before fat32_init(): the statics as the C initialisers leave
\* them, some card in the slot.
InitMount ==
    /\ card_present = TRUE
    /\ blocks \in MountCards
    /\ fat32_initialised = FALSE
    /\ fat32_mounted = InitGlobals.fat32_mounted
    /\ mount_status = InitGlobals.mount_status
    /\ boot_sector = InitGlobals.boot_sector
    /\ volume_start_block = InitGlobals.volume_start_block
    /\ first_data_sector = InitGlobals.first_data_sector
    /\ data_region_sectors = InitGlobals.data_region_sectors
    /\ cluster_count = InitGlobals.cluster_count
    /\ bytes_per_cluster = InitGlobals.bytes_per_cluster
    /\ current_dir_cluster = InitGlobals.current_dir_cluster
    /\ InitCaller
    /\ mon = MonMountInit

\* The monitor after a step that is no call of the API.
Event(name, m) ==
    /\ op' = [name |-> name, arg |-> 0]
    /\ mon' = [m EXCEPT !.first_back = FALSE, !.remount = FALSE]
    /\ UNCHANGED <<file, dir, ret, out, io, pc, rd>>

\* A gated call of the mount specification and what the monitor keeps.
Gated(name, arg, r) ==
    /\ Do(name, arg, r)
    /\ mon' = [mon EXCEPT
                 !.absent_seen = @ \/ ~card_present,
                 !.first_back = mon.returned,
                 !.returned = FALSE,
                 !.remount = FALSE,
                 !.cwd_moved =
                     IF ~r.g.fat32_mounted THEN FALSE
                     ELSE IF name = "set_current_dir" /\ r.err = FAT32_OK
                     THEN arg # PathRoot
                     ELSE IF ~fat32_mounted THEN FALSE ELSE @]

FsInit ==
    /\ SetGlobals(fat32_init(Globals, fat32_initialised))
    /\ fat32_initialised' = TRUE
    /\ Event("init", [mon EXCEPT
                        !.mount_ok = @ /\ fat32_initialised,
                        !.cwd_moved = @ /\ fat32_initialised])
    /\ UNCHANGED <<card_present, blocks>>

Mount ==
    \E r \in {MountCall} :
        /\ Do("mount", 0, r)
        /\ mon' = [mon EXCEPT
                     !.mount_ok = (r.err = FAT32_OK),
                     !.cwd_moved = @ /\ fat32_mounted /\ r.g.fat32_mounted,
                     !.first_back = FALSE,
                     !.remount = card_present /\ fat32_mounted]

Unmount ==
    /\ Do("unmount", 0, UnmountCall)
    /\ mon' = [mon EXCEPT !.mount_ok = FALSE, !.cwd_moved = FALSE,
                          !.first_back = FALSE, !.remount = FALSE]

CardRemove ==
    /\ card_present
    /\ card_present' = FALSE
    /\ Event("card_remove", [mon EXCEPT !.mount_ok = FALSE,
                                        !.absent_seen = FALSE,
                                        !.returned = FALSE])
    /\ UNCHANGED <<blocks, fat32_initialised, statics>>

CardInsert ==
    /\ ~card_present
    /\ card_present' = TRUE
    /\ blocks' \in MountCards
    /\ Event("card_insert", [mon EXCEPT !.returned = mon.absent_seen,
                                        !.absent_seen = FALSE])
    /\ UNCHANGED <<fat32_initialised, statics>>

\* The repeating timer fat32_init starts.
Detect ==
    /\ fat32_initialised
    /\ SetGlobals(on_sd_card_detect(Globals, card_present))
    /\ Event("detect", [mon EXCEPT
                          !.cwd_moved = @ /\ (card_present \/ ~fat32_mounted)])
    /\ UNCHANGED <<card_present, blocks, fat32_initialised>>

GetStatus == Gated("get_status", 0, GetStatusCall)

GetVolumeName == Gated("get_volume_name", 0, GetVolumeNameCall)

GetCurrentDir == Gated("get_current_dir", 0, GetCurrentDirCall)

SetCurrentDir ==
    \E path \in {PathRoot, PathSub} :
        Gated("set_current_dir", path, SetCurrentDirCall(path))

NextMount ==
    \/ FsInit
    \/ Mount
    \/ Unmount
    \/ CardRemove
    \/ CardInsert
    \/ Detect
    \/ GetStatus
    \/ GetVolumeName
    \/ GetCurrentDir
    \/ SetCurrentDir

SpecMount == InitMount /\ [][NextMount]_vars

\* C5: once fat32_mount has returned OK and while the card stays in,
\* get_status, get_volume_name and get_current_dir return OK, the latter
\* with "/" while the current directory was not moved; and after a gated
\* call the volume is never mounted with a last mount status other than OK.
MountThenReady ==
    /\ (mon.mount_ok
          /\ op.name \in {"get_status", "get_volume_name", "get_current_dir"})
         => /\ ret = FAT32_OK
            /\ (op.name = "get_current_dir" /\ ~mon.cwd_moved)
                 => out = PathRoot
    /\ (op.name \in GatedCalls /\ fat32_mounted) => mount_status = FAT32_OK

\* C7: once a ready-check has seen the card absent and while it stays
\* absent, the volume is unmounted and a gated call returns NoCard without
\* block I/O; the first gated call after a valid card came back returns OK
\* on a mounted volume.
AbsentThenRemount ==
    /\ (mon.absent_seen /\ ~card_present)
         => /\ ~fat32_mounted
            /\ op.name \in GatedCalls
                 => (ret = FAT32_ERROR_NO_CARD /\ io = 0)
    /\ (mon.first_back /\ op.name # "get_status" /\ blocks \in ValidCards)
         => (ret = FAT32_OK /\ fat32_mounted)

\* C8: fat32_mount on a mounted volume with the card in returns OK, does no
\* block I/O and leaves the mounted flag, the boot sector and the geometry,
\* the current directory included, as they were.
IdempotentMount ==
    [][(op'.name = "mount" /\ mon'.remount)
         => /\ ret' = FAT32_OK
            /\ io' = 0
            /\ UNCHANGED <<fat32_mounted, boot_sector, volume_start_block,
                           first_data_sector, cluster_count,
                           bytes_per_cluster, current_dir_cluster>>]_vars

IdempotentMountDone ==
    /\ op.name = "mount" /\ mon.remount /\ fat32_mounted
    /\ current_dir_cluster # boot_sector.root_cluster

-----------------------------------------------------------------------------
(* The directory tree: creating and deleting files and directories.        *)

PathD == Str(<<"/", "d">>)

\* A freshly formatted volume: an empty root directory of one cluster.
TreeCard == Card(2, 0, (2 :> FAT32_FAT_ENTRY_EOC), <<2>>, <<>>, <<>>, <<>>)

\* The number of calls a behaviour of the tree specification makes.
MaxTreeCalls == 4

\* card with a second reserved sector that holds an FSInfo sector saying
\* free_count.
InfoCard(card, free_count) ==
    [lba \in 0..Cardinality(DOMAIN card) |->
        IF lba = 0
        THEN [k |-> "bpb",
              c |-> [card[0].c EXCEPT !.reserved_sectors = 2,
                                      !.fat32_info = 1,
                                      !.total_sectors_32 = @ + 1]]
        ELSE IF lba = 1
        THEN [k |-> "fsi", c |-> [sigs |-> TRUE, free_count |-> free_count]]
        ELSE card[lba - 1]]

TreeCards == {TreeCard, InfoCard(TreeCard, ClusterCount - 1)}

\* calls: the calls made that can change the volume; seq: how far the
\* sequence get_free_space, create, write, close, delete, get_free_space
\* has come; free0: what its first get_free_space returned.
InitTree ==
    /\ \E card \in TreeCards : InitMounted(card)
    /\ mon = [calls |-> 0, seq |-> "none", free0 |-> 0]

NextSeq(name, r) ==
    IF r.err # FAT32_OK THEN "none"
    ELSE IF name = "file_create" /\ mon.seq = "measured" THEN "created"
    ELSE IF name = "file_write" /\ mon.seq \in {"created", "written"}
    THEN "written"
    ELSE IF name = "file_close" /\ mon.seq = "written" THEN "closed"
    ELSE IF name = "file_delete" /\ mon.seq = "closed" THEN "deleted"
    ELSE "none"

\* One call of the tree specification.
TreeCall(name, arg, r) ==
    /\ mon.calls < MaxTreeCalls
    /\ Do(name, arg, r)
    /\ mon' = [calls |-> mon.calls + 1, seq |-> NextSeq(name, r),
               free0 |-> IF NextSeq(name, r) = "none" THEN 0 ELSE mon.free0]

TreeGetFreeSpace ==
    \E r \in {GetFreeSpaceCall} :
        /\ Do("get_free_space", 0, r)
        /\ mon' = [mon EXCEPT
                     !.seq = IF r.err # FAT32_OK THEN "none"
                             ELSE IF mon.seq = "deleted" THEN "after"
                             ELSE "measured",
                     !.free0 = IF r.err # FAT32_OK THEN 0
                               ELSE IF mon.seq = "deleted" THEN @
                               ELSE r.out[1]]

TreeFileCreate == TreeCall("file_create", PathA, FileCreateCall(PathA))

TreeDirCreate == TreeCall("dir_create", PathD, DirCreateCall(PathD))

TreeFileWrite ==
    /\ file.is_open
    /\ \E len \in WriteSizes :
           TreeCall("file_write", len,
                    FileWriteCall(PayloadAt(file.position, len)))

TreeFileSeek ==
    /\ file.is_open
    /\ \E position \in SeekPositions :
           TreeCall("file_seek", position, FileSeekCall(position))

TreeFileClose == TreeCall("file_close", 0, FileCloseCall)

TreeFileDelete == TreeCall("file_delete", PathA, FileDeleteCall(PathA))

TreeDirDelete ==
    \E path \in {PathD, PathRoot} :
        TreeCall("dir_delete", path, DirDeleteCall(path))

NextTree ==
    \/ TreeGetFreeSpace
    \/ TreeFileCreate
    \/ TreeDirCreate
    \/ TreeFileWrite
    \/ TreeFileSeek
    \/ TreeFileClose
    \/ TreeFileDelete
    \/ TreeDirDelete

SpecTree == InitTree /\ [][NextTree]_vars

\* The chain that starts at cluster as the FAT of card b links it: the
\* clusters in order, ended by an end-of-chain or an invalid entry; a
\* cluster met twice is appended and ends the walk.
RECURSIVE ChainFrom(_, _, _, _)
ChainFrom(g, b, cluster, seen) ==
    IF cluster < 2 \/ cluster >= g.cluster_count + 2 THEN seen
    ELSE IF \E i \in 1..Len(seen) : seen[i] = cluster
    THEN Append(seen, cluster)
    ELSE ChainFrom(g, b, FatOf(g, b, cluster), Append(seen, cluster))

\* The slots of the directory that starts at cluster, in order.
RECURSIVE SlotsAlong(_, _, _, _)
SlotsAlong(g, b, chain, s) ==
    IF chain = <<>> THEN <<>>
    ELSE IF s = g.boot_sector.sectors_per_cluster
    THEN SlotsAlong(g, b, Tail(chain), 0)
    ELSE LET lba == g.volume_start_block
                      + cluster_to_sector(g, Head(chain)) + s
             slots == AsDir(b[lba])
         IN  [i \in 1..SlotsPerSector |-> slots[i]]
               \o SlotsAlong(g, b, chain, s + 1)

\* The 8.3 slots that stand for a file or a directory of the directory
\* that starts at cluster: in use, before the end marker, no long-name
\* part, no volume label, neither "." nor "..".
LiveSlots(g, b, cluster) ==
    LET slots == SlotsAlong(g, b, ChainFrom(g, b, cluster, <<>>), 0)
        live(i) ==
            /\ \A j \in 1..i : slots[j].b0 # FAT32_DIR_ENTRY_END_MARKER
            /\ slots[i].b0 # FAT32_DIR_ENTRY_FREE
            /\ slots[i].attr # FAT32_ATTR_LONG_NAME
            /\ ~HasAttr(slots[i].attr, FAT32_ATTR_VOLUME_ID)
            /\ slots[i].name # ShortDot
            /\ slots[i].name # ShortDotDot
    IN  SelectSeq([i \in 1..Len(slots) |->
                     IF live(i) THEN slots[i] ELSE ZeroSlot],
                  LAMBDA e : e # ZeroSlot)

\* The start clusters of the live entries below the directory at cluster,
\* depth levels deep.
RECURSIVE StartsBelow(_, _, _, _)
RECURSIVE StartsOf(_, _, _, _)
StartsOf(g, b, slots, depth) ==
    IF slots = <<>> THEN <<>>
    ELSE <<Head(slots).clus>>
           \o (IF HasAttr(Head(slots).attr, FAT32_ATTR_DIRECTORY) /\ depth > 0
               THEN StartsBelow(g, b, Head(slots).clus, depth - 1)
               ELSE <<>>)
           \o StartsOf(g, b, Tail(slots), depth)
StartsBelow(g, b, cluster, depth) ==
    StartsOf(g, b, LiveSlots(g, b, cluster), depth)

TreeDepth == 2

\* The chains of the volume: that of the root directory and those of the
\* live entries.
ChainsOf(g, b) ==
    LET starts == <<g.boot_sector.root_cluster>>
                    \o StartsBelow(g, b, g.boot_sector.root_cluster, TreeDepth)
    IN  [i \in 1..Len(starts) |-> ChainFrom(g, b, starts[i], <<>>)]

RECURSIVE SumLen(_)
SumLen(chains) ==
    IF chains = <<>> THEN 0 ELSE Len(Head(chains)) + SumLen(Tail(chains))

FreeCount(g, b) ==
    Cardinality({c \in 2..(g.cluster_count + 1) :
                   FatOf(g, b, c) = FAT32_FAT_ENTRY_FREE})

\* C4: FAT conservation.  After any sequence of file_create, dir_create,
\* file_write, file_seek, file_close, file_delete and dir_delete on a
\* freshly formatted volume, the free clusters and the clusters of the
\* chains of the root and of the live entries add up to cluster_count, no
\* cluster is in two chains and no chain meets a cluster twice.
FatConserved ==
    LET chains == ChainsOf(Globals, blocks)
    IN  /\ FreeCount(Globals, blocks) + SumLen(chains) = cluster_count
        /\ \A i, j \in 1..Len(chains) :
               i # j => \A x \in 1..Len(chains[i]), y \in 1..Len(chains[j]) :
                            chains[i][x] # chains[j][y]
        /\ \A i \in 1..Len(chains) :
               \A x, y \in 1..Len(chains[i]) :
                   x # y => chains[i][x] # chains[i][y]

-----------------------------------------------------------------------------
(* Card removal while fat32_file_read runs.  The card-detect timer of      *)
(* fat32_init fires in interrupt context, so on_sd_card_detect can run     *)
(* between any two steps of the read; the read is cut at its block reads   *)
(* and at its loads of the geometry.                                       *)

HotplugCard == FileCard(2, 1)

HpReadSizes == {FAT32_SECTOR_SIZE, 4 * FAT32_SECTOR_SIZE}

\* cut: the callback unmounted the volume while the read was running;
\* zero_arith: the read divided by a zero bytes_per_cluster or computed a
\* sector from a zero first_data_sector.
MonHotplugInit == [cut |-> FALSE, zero_arith |-> FALSE]

InitHotplug ==
    /\ InitMounted(HotplugCard)
    /\ mon = MonHotplugInit

\* x % m of the Cortex-M build: with m = 0 the division either traps or
\* leaves the dividend as the remainder.
ModOutcomes(x, m) ==
    IF m # 0 THEN {[trap |-> FALSE, v |-> x % m]}
    ELSE {[trap |-> TRUE, v |-> 0], [trap |-> FALSE, v |-> x]}

\* The statics are not volatile: between two calls out of fat32.c the read
\* may use the value it loaded after the last such call (seen) or the one
\* in memory now.
Loaded(seen, now) == {seen, now}

HpReturn(err, o, n) ==
    /\ pc' = "idle"
    /\ op' = [name |-> "file_read", arg |-> rd.size]
    /\ ret' = err
    /\ out' = o
    /\ io' = n

HpFault ==
    /\ pc' = "fault"
    /\ mon' = [mon EXCEPT !.zero_arith = TRUE]
    /\ UNCHANGED <<op, ret, out, io, rd, file>>

HpOpen ==
    /\ pc = "idle"
    /\ Do("file_open", PathOld, FileOpenCall(PathOld))
    /\ mon' = mon

\* fat32_file_read up to its loop (fat32.c:1368-1395).
HpReadBegin ==
    /\ pc = "idle"
    /\ \E size \in HpReadSizes :
        IF ~file.is_open \/ ~Ready.ready \/ file.position >= file.file_size
        THEN /\ Do("file_read", size,
                   IF ~file.is_open
                   THEN Res(FAT32_ERROR_INVALID_PARAMETER, Globals, CardDev,
                            file, dir, <<>>, FALSE)
                   ELSE IF ~Ready.ready THEN NotReady
                   ELSE Res(FAT32_OK, Ready.g, Ready.dev, file, dir, <<>>,
                            FALSE))
             /\ mon' = MonHotplugInit
        ELSE /\ SetGlobals(Ready.g)
             /\ pc' = "top"
             /\ rd' = [size |-> Min(size, file.file_size - file.position),
                       data |-> <<>>, sector |-> 0, byte_in_sector |-> 0,
                       n |-> Ready.dev.n,
                       bytes_per_cluster |-> Ready.g.bytes_per_cluster,
                       first_data_sector |-> Ready.g.first_data_sector]
             /\ op' = [name |-> "file_read", arg |-> size]
             /\ mon' = MonHotplugInit
             /\ UNCHANGED <<card_present, blocks, fat32_initialised, file,
                            dir, ret, out, io>>

\* The loop test and the sector of the position (fat32.c:1397-1403), or
\* the return after the loop (fat32.c:1435-1439).
HpReadTop ==
    /\ pc = "top"
    /\ UNCHANGED <<card_present, blocks, fat32_initialised, statics, dir>>
    /\ IF ~(Len(rd.data) < rd.size)
       THEN /\ HpReturn(FAT32_OK, rd.data, rd.n)
            /\ UNCHANGED <<file, rd, mon>>
       ELSE \E bpc \in Loaded(rd.bytes_per_cluster, bytes_per_cluster),
               fds \in Loaded(rd.first_data_sector, first_data_sector) :
            \E m \in ModOutcomes(file.position, bpc) :
                IF m.trap THEN HpFault
                ELSE
                LET cluster_offset == m.v
                    sector_in_cluster == cluster_offset \div FAT32_SECTOR_SIZE
                    g == [Globals EXCEPT !.first_data_sector = fds]
                IN  /\ rd' = [rd EXCEPT
                                !.byte_in_sector =
                                    cluster_offset % FAT32_SECTOR_SIZE,
                                !.sector =
                                    U32(cluster_to_sector(g,
                                            file.current_cluster)
                                          + sector_in_cluster)]
                    /\ pc' = "sector"
                    /\ mon' = [mon EXCEPT
                                 !.zero_arith = @ \/ bpc = 0 \/ fds = 0]
                    /\ UNCHANGED <<file, op, ret, out, io>>

\* read_sector and the copy to the caller's buffer (fat32.c:1405-1419).
HpReadSector ==
    /\ pc = "sector"
    /\ UNCHANGED <<card_present, blocks, fat32_initialised, statics, dir,
                   mon>>
    /\ \E r \in {read_sector(Globals, [CardDev EXCEPT !.n = rd.n],
                             rd.sector)} :
        IF r.err # FAT32_OK
        THEN /\ HpReturn(r.err, <<>>, r.dev.n)
             /\ UNCHANGED <<file, rd>>
        ELSE
        LET bytes_to_copy == Min(FAT32_SECTOR_SIZE - rd.byte_in_sector,
                                 rd.size - Len(rd.data))
        IN  /\ rd' = [rd EXCEPT
                        !.data = @ \o SubSeq(AsRaw(r.buf),
                                             rd.byte_in_sector + 1,
                                             rd.byte_in_sector
                                               + bytes_to_copy),
                        !.n = r.dev.n,
                        !.bytes_per_cluster = bytes_per_cluster,
                        !.first_data_sector = first_data_sector]
            /\ file' = [file EXCEPT !.position = @ + bytes_to_copy]
            /\ pc' = "next"
            /\ UNCHANGED <<op, ret, out, io>>

\* The move to the next cluster (fat32.c:1422-1432).
HpReadNext ==
    /\ pc = "next"
    /\ UNCHANGED <<card_present, blocks, fat32_initialised, statics, dir>>
    /\ \E bpc \in Loaded(rd.bytes_per_cluster, bytes_per_cluster) :
        \E m \in ModOutcomes(file.position, bpc) :
            IF m.trap THEN HpFault
            ELSE
            /\ mon' = [mon EXCEPT !.zero_arith = @ \/ bpc = 0]
            /\ IF m.v = 0 /\ Len(rd.data) < rd.size
               THEN \E n \in {read_cluster_fat_entry(Globals,
                                  [CardDev EXCEPT !.n = rd.n],
                                  file.current_cluster)} :
                    IF n.err # FAT32_OK \/ n.value >= FAT32_FAT_ENTRY_EOC
                    THEN /\ HpReturn(FAT32_OK, rd.data, n.dev.n)
                         /\ UNCHANGED <<file, rd>>
                    ELSE /\ file' = [file EXCEPT !.current_cluster = n.value]
                         /\ rd' = [rd EXCEPT
                                     !.n = n.dev.n,
                                     !.bytes_per_cluster = bytes_per_cluster,
                                     !.first_data_sector = first_data_sector]
                         /\ pc' = "top"
                         /\ UNCHANGED <<op, ret, out, io>>
               ELSE /\ pc' = "top"
                    /\ UNCHANGED <<file, rd, op, ret, out, io>>

HpCardRemove ==
    /\ card_present
    /\ card_present' = FALSE
    /\ UNCHANGED <<blocks, fat32_initialised, statics, file, dir, op, ret,
                   out, io, mon, pc, rd>>

HpCardInsert ==
    /\ ~card_present
    /\ card_present' = TRUE
    /\ UNCHANGED <<blocks, fat32_initialised, statics, file, dir, op, ret,
                   out, io, mon, pc, rd>>

\* The timer callback, at any point of the read.
HpDetect ==
    /\ fat32_initialised
    /\ SetGlobals(on_sd_card_detect(Globals, card_present))
    /\ mon' = [mon EXCEPT
                 !.cut = @ \/ (pc \notin {"idle", "fault"} /\ ~card_present
                                 /\ fat32_mounted)]
    /\ UNCHANGED <<card_present, blocks, fat32_initialised, file, dir, op,
                   ret, out, io, pc, rd>>

NextHotplug ==
    \/ HpOpen
    \/ HpReadBegin
    \/ HpReadTop
    \/ HpReadSector
    \/ HpReadNext
    \/ HpCardRemove
    \/ HpCardInsert
    \/ HpDetect

SpecHotplug == InitHotplug /\ [][NextHotplug]_vars

\* C6: a fat32_file_read during which the card-detect callback unmounted
\* the volume returns ReadFailed or WriteFailed, and no step of a read
\* divides by a zero bytes_per_cluster or computes a sector address from a
\* zero first_data_sector.
InFlightFails ==
    /\ ~mon.zero_arith
    /\ pc # "fault"
    /\ (mon.cut /\ pc = "idle" /\ op.name = "file_read")
         => ret \in {FAT32_ERROR_READ_FAILED, FAT32_ERROR_WRITE_FAILED}

-----------------------------------------------------------------------------
(* Names: creating entries in the root directory and enumerating it.       *)

DirOpenCall(path) ==
    IF Len(path) > FAT32_MAX_PATH_LEN
    THEN Res(FAT32_ERROR_INVALID_PATH, Globals, CardDev, file, dir, <<>>,
             FALSE)
    ELSE IF ~Ready.ready THEN NotReady
    ELSE Let([r \in {fat32_dir_open(Ready.g, Ready.dev, path)}
         |-> Res(r.err, Ready.g, r.dev, file, r.d, <<>>, r.ub)])

\* out is dir_entry->filename.
DirReadCall ==
    IF ~dir.is_open
    THEN Res(FAT32_ERROR_READ_FAILED, Globals, CardDev, file, dir, <<>>,
             FALSE)
    ELSE IF ~Ready.ready THEN NotReady
    ELSE Let([r \in {fat32_dir_read(Ready.g, Ready.dev, dir)}
         |-> Res(r.err, Ready.g, r.dev, file, r.d, r.entry.filename, r.ub)])

\* One LFN slot each: three characters, and thirteen (a full slot).
NamePlus == Str(<<"a", "+", "b">>)
NameComma == Str(<<"a", ",", "b">>)
Name13 ==
    Str(<<"A", "b", "c", "d", "e", "f", "g", "h", "i", "j", "k", "l", "m">>)
\* Two LFN slots.
Name14 == Name13 \o Str(<<"n">>)

Names == {NamePlus, NameComma, Name13, Name14}

DirNames == {NamePlus}

\* Creates per run.
MaxCreates == 2

InRoot(name) == <<SLASH>> \o name

\* A volume whose empty root directory has the clusters of chain.
NamesCard(chain) == Card(2, 0, ChainFat(chain), chain, <<>>, <<>>, <<>>)

NamesCards == {NamesCard(<<2>>), NamesCard(<<2, 3>>)}

\* created: the name the last create stored; listing: the names dir_read
\* returned since the root was opened after it; state: "open" while they
\* are being read, "done" when dir_read has returned the end; creates: the
\* creates made.
MonNamesInit ==
    [created |-> <<>>, listing |-> <<>>, state |-> "none", creates |-> 0]

InitNames ==
    /\ \E card \in NamesCards : InitMounted(card)
    /\ mon = MonNamesInit

Created(name, r) ==
    [created |-> IF r.err = FAT32_OK THEN name ELSE <<>>,
     listing |-> <<>>, state |-> "none", creates |-> mon.creates + 1]

NmFileCreate ==
    /\ mon.creates < MaxCreates
    /\ \E name \in Names :
        \E r \in {FileCreateCall(InRoot(name))} :
            /\ Do("file_create", InRoot(name), r)
            /\ mon' = Created(name, r)

NmDirCreate ==
    /\ mon.creates < MaxCreates
    /\ \E name \in DirNames :
        \E r \in {DirCreateCall(InRoot(name))} :
            /\ Do("dir_create", InRoot(name), r)
            /\ mon' = Created(name, r)

NmDirOpen ==
    \E r \in {DirOpenCall(PathRoot)} :
        /\ Do("dir_open", PathRoot, r)
        /\ mon' = [mon EXCEPT !.listing = <<>>,
                              !.state = IF r.err = FAT32_OK THEN "open"
                                        ELSE "none"]

NmDirRead ==
    \E r \in {DirReadCall} :
        /\ Do("dir_read", 0, r)
        /\ mon' = IF mon.state # "open" THEN mon
                  ELSE IF r.err # FAT32_OK THEN [mon EXCEPT !.state = "none"]
                  ELSE IF r.out = <<>> THEN [mon EXCEPT !.state = "done"]
                  ELSE [mon EXCEPT !.listing = Append(@, r.out)]

\* The monitor after a delete: the created name is no longer followed.
Deleted == [mon EXCEPT !.created = <<>>, !.listing = <<>>, !.state = "none"]

NmFileDelete ==
    \E name \in {NamePlus, Name14} :
        /\ Do("file_delete", InRoot(name), FileDeleteCall(InRoot(name)))
        /\ mon' = Deleted

NmDirDelete ==
    \E name \in DirNames :
        /\ Do("dir_delete", InRoot(name), DirDeleteCall(InRoot(name)))
        /\ mon' = Deleted

NextNames ==
    \/ NmFileCreate
    \/ NmDirCreate
    \/ NmFileDelete
    \/ NmDirDelete
    \/ NmDirOpen
    \/ NmDirRead

SpecNames == InitNames /\ [][NextNames]_vars

\* C9: LFN round trip.  After fat32_file_create or fat32_dir_create of a
\* name in the root directory returned OK, opening the root and reading it
\* with fat32_dir_read to its end returns an entry whose filename is
\* exactly the created name, case included.
LfnRoundTrip ==
    (mon.state = "done" /\ mon.created # <<>>)
        => \E i \in 1..Len(mon.listing) : mon.listing[i] = mon.created

\* C10: shortname uniqueness.  After any sequence of fat32_file_create and
\* fat32_dir_create in the root directory no two live 8.3 slots of the root
\* hold the same 11-byte short name.
ShortnamesUnique ==
    LET live == LiveSlots(Globals, blocks, boot_sector.root_cluster)
    IN  \A i, j \in 1..Len(live) : i # j => live[i].name # live[j].name

\* The slots of the root directory, in order.
RootSlots ==
    SlotsAlong(Globals, blocks,
               ChainFrom(Globals, blocks, boot_sector.root_cluster, <<>>), 0)

IsLfnSlot(e) == e.attr = FAT32_ATTR_LONG_NAME

\* The 8.3 slot that owns the LFN slot i of slots: the first slot after it
\* that is no LFN slot (0 if there is none).
OwnerOf(slots, i) ==
    IF \E j \in (i + 1)..Len(slots) : ~IsLfnSlot(slots[j])
    THEN CHOOSE j \in (i + 1)..Len(slots) :
            /\ ~IsLfnSlot(slots[j])
            /\ \A k \in (i + 1)..(j - 1) : IsLfnSlot(slots[k])
    ELSE 0

\* C11: the LFN run and its 8.3 slot are freed together.  No LFN slot of
\* the root directory is still in use (first byte neither 0xE5 nor 0) when
\* the 8.3 slot that owns it has been marked free by a delete.
NoOrphanLfn ==
    \A i \in 1..Len(RootSlots) :
        (/\ IsLfnSlot(RootSlots[i])
         /\ RootSlots[i].b0 # FAT32_DIR_ENTRY_FREE
         /\ RootSlots[i].b0 # FAT32_DIR_ENTRY_END_MARKER
         /\ OwnerOf(RootSlots, i) # 0)
            => RootSlots[OwnerOf(RootSlots, i)].b0 # FAT32_DIR_ENTRY_FREE

\* C12: directory growth.  fat32_file_create or fat32_dir_create returns
\* DiskFull only when the volume has no free cluster left to extend the
\* parent directory with.
DiskFullOnlyWhenFull ==
    (op.name \in {"file_create", "dir_create"}
       /\ ret = FAT32_ERROR_DISK_FULL)
        => FreeCount(Globals, blocks) = 0

\* C13: deletion frees space.  When fat32_get_free_space, a successful
\* fat32_file_create, one or more successful fat32_file_write calls,
\* fat32_file_close, a successful fat32_file_delete of the file and
\* fat32_get_free_space follow each other, the second value differs from
\* the first by at most one cluster.
FreeSpaceRestored ==
    mon.seq = "after"
        => /\ out[1] - mon.free0 <= bytes_per_cluster
           /\ mon.free0 - out[1] <= bytes_per_cluster

FreeSpaceRestoredDone ==
    /\ mon.seq = "after"
    /\ op.name = "get_free_space"
    /\ ret = FAT32_OK
    /\ boot_sector.fat32_info = 0
    /\ out[1] > 0

\* The size field of the live 8.3 slot of the root directory that names
\* the open handle's first cluster, -1 when there is none.
HandleSlotSize ==
    LET live == LiveSlots(Globals, blocks, boot_sector.root_cluster)
        mine == {i \in 1..Len(live) : live[i].clus = file.start_cluster}
    IN  IF mine = {} THEN 0 - 1 ELSE live[CHOOSE i \in mine : TRUE].size

\* C14: size bookkeeping.  When fat32_file_write has returned OK for n
\* bytes at position p, the handle has file_size = max(old file_size,
\* p + n) and position = p + n, and the size field of the file's 8.3 slot
\* on the card equals the handle's file_size, for handles from
\* fat32_file_create and from fat32_file_open.
WriteKeepsSize ==
    (op.name = "file_write" /\ ret = FAT32_OK)
        => /\ file.position = mon.wpos + op.arg
           /\ file.file_size = Max(mon.wsize, mon.wpos + op.arg)
           /\ HandleSlotSize = file.file_size

WriteKeepsSizeDone ==
    /\ op.name = "file_write"
    /\ ret = FAT32_OK
    /\ file.position > 0
    /\ file.file_size > file.position
    /\ HandleSlotSize = file.file_size

\* C15: read bounds.  fat32_file_read of n bytes from position p never
\* returns more than min(n, file_size - p) bytes and never leaves the
\* position beyond file_size when it started below it; when p >= file_size,
\* also after a seek past the end, it returns OK with no bytes, leaves the
\* position where it was and does no block I/O.
ReadWithinFile ==
    op.name = "file_read"
        => /\ Len(out) <= op.arg
           /\ mon.pos0 < file.file_size
                => /\ Len(out) <= file.file_size - mon.pos0
                   /\ file.position <= file.file_size
           /\ mon.pos0 >= file.file_size
                => /\ ret = FAT32_OK
                   /\ out = <<>>
                   /\ file.position = mon.pos0
                   /\ io = 0

\* A read that was cut to the end of the file.
ReadWithinFileDone ==
    /\ op.name = "file_read"
    /\ ret = FAT32_OK
    /\ mon.pos0 < file.file_size
    /\ Len(out) = file.file_size - mon.pos0
    /\ Len(out) < op.arg

-----------------------------------------------------------------------------
(* Path resolution on a volume with a directory tree.                      *)

\* Components per path.
MaxComponents == 2

NameSub == Str(<<"s", "u", "b">>)
NameSubCaps == Str(<<"S", "u", "b">>)
NameF == Str(<<"f", ".", "t", "x", "t">>)
NameD == Str(<<"d">>)
NameX == Str(<<"x">>)
NameNone == Str(<<"n", "o">>)
NameLabel == Str(<<"p", "i", "c", "o">>)

\* The tree of the card: for every directory, by start cluster, its
\* entries in slot order with the cluster their 8.3 slot stores.
\*   /sub (3), /f.txt (5), the volume label pico, /sub/d (4), /sub/x (6)
PathsTree ==
    (2 :> <<[name |-> NameSub, attr |-> FAT32_ATTR_DIRECTORY, clus |-> 3],
            [name |-> NameF, attr |-> FAT32_ATTR_ARCHIVE, clus |-> 5],
            [name |-> NameLabel, attr |-> FAT32_ATTR_VOLUME_ID, clus |-> 0]>>)
    @@ (3 :> <<[name |-> <<DOT>>, attr |-> FAT32_ATTR_DIRECTORY, clus |-> 3],
               [name |-> <<DOT, DOT>>, attr |-> FAT32_ATTR_DIRECTORY,
                clus |-> 0],
               [name |-> NameD, attr |-> FAT32_ATTR_DIRECTORY, clus |-> 4],
               [name |-> NameX, attr |-> FAT32_ATTR_ARCHIVE, clus |-> 6]>>)
    @@ (4 :> <<[name |-> <<DOT>>, attr |-> FAT32_ATTR_DIRECTORY, clus |-> 4],
               [name |-> <<DOT, DOT>>, attr |-> FAT32_ATTR_DIRECTORY,
                clus |-> 3]>>)

ShortOf(name) ==
    IF name = <<DOT>> THEN ShortDot
    ELSE IF name = <<DOT, DOT>> THEN ShortDotDot
    ELSE filename_to_shortname(name)

TreeSlots(entries) ==
    [i \in 1..Len(entries) |->
       ShortSlot(ShortOf(entries[i].name), entries[i].attr, entries[i].clus,
                 0)]

\* The card that holds PathsTree.
PathsCard ==
    CardWithDir(
        CardWithDir(
            Card(2, 0, [c \in 2..6 |-> FAT32_FAT_ENTRY_EOC], <<2>>,
                 TreeSlots(PathsTree[2]), <<>>, <<>>),
            2, 0, 3, TreeSlots(PathsTree[3])),
        2, 0, 4, TreeSlots(PathsTree[4]))

Components == {NameSubCaps, NameX, NameNone, <<DOT, DOT>>}

\* The paths resolved: absolute or relative, of 1..MaxComponents
\* components.
PathInputs ==
    [abs : BOOLEAN,
     comps : UNION {[1..k -> Components] : k \in 1..MaxComponents}]

RECURSIVE JoinPath(_)
JoinPath(comps) ==
    IF Len(comps) = 1 THEN comps[1]
    ELSE comps[1] \o <<SLASH>> \o JoinPath(Tail(comps))

PathString(p) == (IF p.abs THEN <<SLASH>> ELSE <<>>) \o JoinPath(p.comps)

\* The directories made current.
CdInputs ==
    {[abs |-> TRUE, comps |-> <<NameSub>>],
     [abs |-> TRUE, comps |-> <<NameSub, NameD>>],
     [abs |-> FALSE, comps |-> <<<<DOT, DOT>>>>],
     [abs |-> FALSE, comps |-> <<NameD>>]}

\* What a path resolves to in PathsTree, walked from the directory at
\* cluster: the first entry of each directory whose name equals the
\* component without regard to case.
Lower(name) == [i \in 1..Len(name) |-> tolower(name[i])]

Matches(cluster, comp) ==
    {i \in 1..Len(PathsTree[cluster]) :
        Lower(PathsTree[cluster][i].name) = Lower(comp)}

RECURSIVE Resolved(_, _)
Resolved(cluster, comps) ==
    LET hits == Matches(cluster, Head(comps))
        first == PathsTree[cluster][CHOOSE i \in hits :
                                       \A j \in hits : i <= j]
        dirs == {i \in hits :
                    HasAttr(PathsTree[cluster][i].attr, FAT32_ATTR_DIRECTORY)}
        down == PathsTree[cluster][CHOOSE i \in dirs : \A j \in dirs : i <= j]
    IN  IF Len(comps) = 1
        THEN (IF hits = {} THEN [err |-> FAT32_ERROR_FILE_NOT_FOUND]
              ELSE [err |-> FAT32_OK, name |-> first.name,
                    attr |-> first.attr, clus |-> first.clus])
        ELSE IF dirs = {} THEN [err |-> FAT32_ERROR_INVALID_PATH]
        ELSE Resolved(IF down.clus = 0 THEN boot_sector.root_cluster
                      ELSE down.clus, Tail(comps))

ResolvedFrom(p) ==
    Resolved(IF p.abs THEN boot_sector.root_cluster ELSE current_dir_cluster,
             p.comps)

\* The canonical cases find_entry answers before it walks: "." and ".."
\* while the current directory is the root.
Canonical(p) ==
    /\ ~p.abs
    /\ p.comps \in {<<<<DOT>>>>, <<<<DOT, DOT>>>>}
    /\ current_dir_cluster = boot_sector.root_cluster

\* What find_entry is to make of p, and what kind of entry that is.
Truth(p) ==
    IF Canonical(p)
    THEN [err |-> FAT32_OK, name |-> <<>>, attr |-> FAT32_ATTR_DIRECTORY,
          clus |-> boot_sector.root_cluster]
    ELSE ResolvedFrom(p)

IsDirectory(p) ==
    Truth(p).err = FAT32_OK /\ HasAttr(Truth(p).attr, FAT32_ATTR_DIRECTORY)

IsLabel(p) ==
    Truth(p).err = FAT32_OK /\ HasAttr(Truth(p).attr, FAT32_ATTR_VOLUME_ID)

\* The directory p resolves to holds an entry other than "." and "..".
HasEntries(p) ==
    LET cluster == IF Truth(p).clus = 0 THEN boot_sector.root_cluster
                   ELSE Truth(p).clus
    IN  \E i \in 1..Len(PathsTree[cluster]) :
            PathsTree[cluster][i].name \notin {<<DOT>>, <<DOT, DOT>>}

InitPaths ==
    /\ InitMounted(PathsCard)
    /\ mon = [cwd |-> <<>>]

\* find_entry as the ready-gated calls run it.
FindEntryCall(path) ==
    IF ~Ready.ready THEN NotReady
    ELSE Let([r \in {find_entry(Ready.g, Ready.dev, path)}
         |-> Res(r.err, Ready.g, r.dev, file, dir,
                 IF r.err = FAT32_OK
                 THEN <<r.entry.filename, r.entry.attr,
                        r.entry.start_cluster>>
                 ELSE <<>>, r.ub)])

PaFindEntry ==
    \E p \in PathInputs :
        /\ Do("find_entry", p, FindEntryCall(PathString(p)))
        /\ UNCHANGED mon

PaSetCurrentDir ==
    \E p \in CdInputs :
        /\ Do("set_current_dir", p, SetCurrentDirCall(PathString(p)))
        /\ UNCHANGED mon

\* The paths given to the calls that change the volume.
TouchInputs ==
    {[abs |-> TRUE, comps |-> <<NameSubCaps>>],
     [abs |-> TRUE, comps |-> <<NameSub, NameD>>],
     [abs |-> TRUE, comps |-> <<NameF>>],
     [abs |-> TRUE, comps |-> <<NameLabel>>],
     [abs |-> FALSE, comps |-> <<NameX>>],
     [abs |-> FALSE, comps |-> <<NameD>>],
     [abs |-> FALSE, comps |-> <<<<DOT, DOT>>>>]}

\* Creates of paths that resolve.
PaFileCreate ==
    \E p \in {q \in TouchInputs : Truth(q).err = FAT32_OK} :
        /\ Do("file_create", p, FileCreateCall(PathString(p)))
        /\ UNCHANGED mon

PaDirCreate ==
    \E p \in {q \in TouchInputs : Truth(q).err = FAT32_OK} :
        /\ Do("dir_create", p, DirCreateCall(PathString(p)))
        /\ UNCHANGED mon

\* Deletes of paths that resolve to an entry of the other kind or to a
\* directory with entries.
PaFileDelete ==
    \E p \in {q \in TouchInputs : IsDirectory(q) \/ IsLabel(q)} :
        /\ Do("file_delete", p, FileDeleteCall(PathString(p)))
        /\ UNCHANGED mon

PaDirDelete ==
    \E p \in {q \in TouchInputs :
                \/ Truth(q).err = FAT32_OK /\ ~IsDirectory(q)
                \/ IsDirectory(q) /\ HasEntries(q)} :
        /\ Do("dir_delete", p, DirDeleteCall(PathString(p)))
        /\ UNCHANGED mon

NextPaths ==
    \/ PaFindEntry
    \/ PaSetCurrentDir
    \/ PaFileCreate
    \/ PaDirCreate
    \/ PaFileDelete
    \/ PaDirDelete

SpecPaths == InitPaths /\ [][NextPaths]_vars

AsResolved(p) ==
    LET t == ResolvedFrom(p)
    IN  /\ ret = t.err
        /\ t.err = FAT32_OK => out = <<t.name, t.attr, t.clus>>

\* C16 as stated: path resolution taxonomy.  For every path of k >= 1
\* components find_entry returns InvalidPath when a component other than
\* the last has no match or matches only a non-directory, FileNotFound when
\* only the last has no match, and the matched final entry otherwise.
PathTaxonomyAll ==
    op.name = "find_entry" => AsResolved(op.arg)

\* C16: path resolution taxonomy, for the paths find_entry walks.  Apart
\* from "." and ".." resolved while the current directory is the root,
\* which yield the root directory, find_entry returns InvalidPath when a
\* component other than the last has no match or matches only a
\* non-directory, FileNotFound when only the last has no match, and the
\* matched final entry otherwise.
PathTaxonomy ==
    op.name = "find_entry"
        => IF Canonical(op.arg)
           THEN ret = FAT32_OK
                  /\ out = <<<<>>, FAT32_ATTR_DIRECTORY,
                             boot_sector.root_cluster>>
           ELSE AsResolved(op.arg)

\* A file below a directory of the current directory, reached by a
\* relative path in another case.
PathTaxonomyDone ==
    /\ op.name = "find_entry"
    /\ current_dir_cluster = 3
    /\ op.arg = [abs |-> FALSE, comps |-> <<<<DOT, DOT>>, NameSubCaps>>]
    /\ ret = FAT32_OK
    /\ out = <<NameSub, FAT32_ATTR_DIRECTORY, 3>>

\* C17: create on an existing path.  fat32_file_create or fat32_dir_create
\* on a path that resolves, to a file or a directory and without regard to
\* case, returns FileExists and leaves every sector of the card as it was.
CreateExistingKept ==
    (op.name \in {"file_create", "dir_create"}
       /\ Truth(op.arg).err = FAT32_OK)
        => /\ ret = FAT32_ERROR_FILE_EXISTS
           /\ blocks = PathsCard

\* fat32_dir_create answered for the file /sub/x, named by a relative path.
CreateExistingKeptDone ==
    /\ op.name = "dir_create"
    /\ op.arg = [abs |-> FALSE, comps |-> <<NameX>>]
    /\ current_dir_cluster = 3
    /\ ret = FAT32_ERROR_FILE_EXISTS

\* C18: delete rejects without changing the card.  fat32_file_delete on a
\* directory or on the volume label returns NotAFile, fat32_dir_delete on
\* an entry that is no directory returns NotADirectory, fat32_dir_delete on
\* a directory that holds an entry other than "." and ".." returns
\* DirNotEmpty; every sector of the card stays as it was.
DeleteRejectKept ==
    /\ (op.name = "file_delete" /\ (IsDirectory(op.arg) \/ IsLabel(op.arg)))
         => ret = FAT32_ERROR_NOT_A_FILE /\ blocks = PathsCard
    /\ (op.name = "dir_delete" /\ Truth(op.arg).err = FAT32_OK
           /\ ~IsDirectory(op.arg))
         => ret = FAT32_ERROR_NOT_A_DIRECTORY /\ blocks = PathsCard
    /\ (op.name = "dir_delete" /\ IsDirectory(op.arg) /\ HasEntries(op.arg))
         => ret = FAT32_ERROR_DIR_NOT_EMPTY /\ blocks = PathsCard

\* fat32_file_delete answered for the volume label.
DeleteRejectKeptDone ==
    /\ op.name = "file_delete"
    /\ op.arg = [abs |-> TRUE, comps |-> <<NameLabel>>]
    /\ ret = FAT32_ERROR_NOT_A_FILE
    /\ blocks = PathsCard

-----------------------------------------------------------------------------
(* Directory creation below the root and below other directories.         *)

\* fat32_dir_create calls per run.
MaxDirCreates == 1

\* The depth down to which the directories of the card are followed.
MaxWalk == 3

NameE == Str(<<"e">>)

\* A card with eight slots per cluster that holds /sub (3) and /sub/d (4).
DirsCard ==
    CardWithDir(
        CardWithDir(
            Card(4, 0, [c \in 2..4 |-> FAT32_FAT_ENTRY_EOC], <<2>>,
                 <<ShortSlot(ShortSub, FAT32_ATTR_DIRECTORY, 3, 0)>>, <<>>,
                 <<>>),
            4, 0, 3,
            <<ShortSlot(ShortDot, FAT32_ATTR_DIRECTORY, 3, 0),
              ShortSlot(ShortDotDot, FAT32_ATTR_DIRECTORY, 0, 0),
              ShortSlot(ShortOf(NameD), FAT32_ATTR_DIRECTORY, 4, 0)>>),
        4, 0, 4,
        <<ShortSlot(ShortDot, FAT32_ATTR_DIRECTORY, 4, 0),
          ShortSlot(ShortDotDot, FAT32_ATTR_DIRECTORY, 3, 0)>>)

\* The directory a component leads to from the directory at cluster on
\* DirsCard, 0 when there is none.
StepTo(cluster, comp) ==
    IF comp = <<DOT, DOT>> THEN (IF cluster = 4 THEN 3 ELSE 2)
    ELSE IF cluster = 2 /\ comp = NameSub THEN 3
    ELSE IF cluster = 3 /\ comp = NameD THEN 4
    ELSE 0

RECURSIVE WalkTo(_, _)
WalkTo(cluster, comps) ==
    IF comps = <<>> \/ cluster = 0 THEN cluster
    ELSE WalkTo(StepTo(cluster, Head(comps)), Tail(comps))

\* The directory in which p names its last component.
ParentOf(p) ==
    WalkTo(IF p.abs THEN 2 ELSE current_dir_cluster,
           SubSeq(p.comps, 1, Len(p.comps) - 1))

\* The directories created: in the root, below a directory, below a
\* directory of a directory, and by relative paths.
NewDirInputs ==
    {[abs |-> TRUE, comps |-> <<NameE>>],
     [abs |-> TRUE, comps |-> <<NameSub, NameE>>],
     [abs |-> TRUE, comps |-> <<NameSub, NameD, NameE>>],
     [abs |-> FALSE, comps |-> <<NameE>>],
     [abs |-> FALSE, comps |-> <<NameD, NameE>>],
     [abs |-> FALSE, comps |-> <<<<DOT, DOT>>, NameE>>]}

\* made: the path of the last successful fat32_dir_create, parent: the
\* directory it named the new one in, cwd: the current directory then;
\* state and listing follow its enumeration.
MonDirsInit ==
    [creates |-> 0, made |-> <<>>, parent |-> 0, cwd |-> 0,
     state |-> "none", listing |-> <<>>]

InitDirs ==
    /\ InitMounted(DirsCard)
    /\ mon = MonDirsInit

\* The directories made current: those of the card and the one created.
DirsCdInputs ==
    CdInputs \cup {[abs |-> FALSE, comps |-> <<NameE>>],
                   [abs |-> TRUE, comps |-> <<NameSub, NameE>>]}

DcSetCurrentDir ==
    \E p \in DirsCdInputs :
        /\ Do("set_current_dir", p, SetCurrentDirCall(PathString(p)))
        /\ mon' = [mon EXCEPT !.state = "none", !.listing = <<>>]

DcDirCreate ==
    /\ mon.creates < MaxDirCreates
    /\ \E p \in NewDirInputs :
        \E r \in {DirCreateCall(PathString(p))} :
            /\ Do("dir_create", p, r)
            /\ mon' = IF r.err = FAT32_OK
                      THEN [creates |-> mon.creates + 1, made |-> p,
                            parent |-> ParentOf(p),
                            cwd |-> current_dir_cluster, state |-> "made",
                            listing |-> <<>>]
                      ELSE [mon EXCEPT !.creates = @ + 1, !.state = "none",
                                       !.listing = <<>>]

\* fat32_dir_open of the path created, from the directory it was created
\* from.
DcDirOpen ==
    /\ mon.made # <<>>
    /\ current_dir_cluster = mon.cwd
    /\ \E r \in {DirOpenCall(PathString(mon.made))} :
        /\ Do("dir_open", mon.made, r)
        /\ mon' = [mon EXCEPT !.listing = <<>>,
                              !.state = IF r.err = FAT32_OK THEN "open"
                                        ELSE "failed"]

DcDirRead ==
    /\ mon.state \in {"open", "done"}
    /\ \E r \in {DirReadCall} :
        /\ Do("dir_read", 0, r)
        /\ mon' = IF r.err # FAT32_OK THEN [mon EXCEPT !.state = "failed"]
                  ELSE IF r.out = <<>> THEN [mon EXCEPT !.state = "done"]
                  ELSE [mon EXCEPT !.listing = Append(@, r.out)]

\* out is path.
DcGetCurrentDir ==
    /\ Do("get_current_dir", 0, GetCurrentDirCall)
    /\ mon' = [mon EXCEPT !.state = "none", !.listing = <<>>]

NextDirs ==
    \/ DcSetCurrentDir
    \/ DcGetCurrentDir
    \/ DcDirCreate
    \/ DcDirOpen
    \/ DcDirRead

SpecDirs == InitDirs /\ [][NextDirs]_vars

\* The cluster the 8.3 slot of the created directory names, and the slots
\* of that cluster.
MadeCluster ==
    LET live == LiveSlots(Globals, blocks, mon.parent)
        mine == {i \in 1..Len(live) : live[i].name = ShortOf(NameE)}
    IN  IF mine = {} THEN 0 ELSE live[CHOOSE i \in mine : TRUE].clus

MadeSlots ==
    SlotsAlong(Globals, blocks, ChainFrom(Globals, blocks, MadeCluster, <<>>),
               0)

\* C19: dot entries.  After a successful fat32_dir_create(p), fat32_dir_open
\* of p succeeds and fat32_dir_read yields ".", then "..", then the end of
\* the enumeration; the "." slot stores the new directory's own start
\* cluster and the ".." slot the start cluster of the parent, 0 when the
\* parent is the root.  This holds for absolute paths, for relative paths
\* from a current directory other than the root, and for parents that are
\* themselves below a directory.
DotEntries ==
    mon.made # <<>>
        => /\ mon.parent # 0
           /\ MadeCluster >= 2
           /\ MadeSlots[1].name = ShortDot
           /\ MadeSlots[1].clus = MadeCluster
           /\ MadeSlots[2].name = ShortDotDot
           /\ MadeSlots[2].clus = (IF mon.parent = boot_sector.root_cluster
                                   THEN 0 ELSE mon.parent)
           /\ mon.state # "failed"
           /\ mon.state \in {"open", "done"}
                => \A i \in 1..Len(mon.listing) :
                       /\ i <= 2
                       /\ mon.listing[i] = <<<<DOT>>, <<DOT, DOT>>>>[i]
           /\ mon.state = "done" => Len(mon.listing) = 2

\* The directory d/e created from /sub and enumerated to its end.
DotEntriesDone ==
    /\ mon.made = [abs |-> FALSE, comps |-> <<NameD, NameE>>]
    /\ mon.cwd = 3
    /\ mon.parent = 4
    /\ mon.state = "done"
    /\ mon.listing = <<<<DOT>>, <<DOT, DOT>>>>
    /\ MadeSlots[2].clus = 4

\* The names of the directories that lead from the directory at cluster
\* down to the directory at target, as the 8.3 slots of the card say, at
\* most depth levels down.
RECURSIVE PathsDown(_, _, _)
PathsDown(cluster, target, depth) ==
    IF depth = 0 THEN {}
    ELSE LET live == LiveSlots(Globals, blocks, cluster)
             dirs == {i \in 1..Len(live) :
                         HasAttr(live[i].attr, FAT32_ATTR_DIRECTORY)}
         IN  UNION {IF live[i].clus = target
                    THEN {<<shortname_to_filename(live[i].name)>>}
                    ELSE {<<shortname_to_filename(live[i].name)>> \o q :
                            q \in PathsDown(live[i].clus, target, depth - 1)}
                    : i \in dirs}

RECURSIVE JoinAbs(_)
JoinAbs(comps) ==
    IF comps = <<>> THEN <<>>
    ELSE <<SLASH>> \o Head(comps) \o JoinAbs(Tail(comps))

\* The paths of the current directory.
CurrentPaths ==
    IF current_dir_cluster = boot_sector.root_cluster THEN {<<SLASH>>}
    ELSE {JoinAbs(q) :
            q \in PathsDown(boot_sector.root_cluster, current_dir_cluster,
                            MaxWalk)}

\* C20: bounded directory walk.  fat32_get_current_dir returns OK and the
\* path, beginning with '/', whose components are the names of the
\* directories from the root down to the directory that
\* fat32_set_current_dir made current.
CurrentDirPath ==
    op.name = "get_current_dir"
        => /\ ret = FAT32_OK
           /\ out \in CurrentPaths


-----------------------------------------------------------------------------
(* Block-device faults: a card on which one block has gone bad since the    *)
(* volume was mounted.  Every read and every write of that block fails.    *)

MaxFaultCalls == 3

\* card without the block bad.
FaultyCard(card, bad) == [lba \in DOMAIN card \ {bad} |-> card[lba]]

\* The blocks that go bad: none (the block after the card), the first FAT
\* sector, the first sector of the root directory, the first sector of
\* /old.bin and the second sector of its second cluster.
BadBlocks == {3 + ClusterCount * 2, 1, 3, 5, 3 + (6 - 2) * 2 + 1}

\* failed is the first error a block transfer of the last call gave (OK
\* when none failed), calls the number of calls made.
InitFaults ==
    /\ \E bad \in BadBlocks :
        /\ card_present = TRUE
        /\ blocks = FaultyCard(FileCard(2, 0), bad)
    /\ fat32_initialised = TRUE
    /\ fat32_mounted = MountedOn(FileCard(2, 0)).fat32_mounted
    /\ mount_status = MountedOn(FileCard(2, 0)).mount_status
    /\ boot_sector = MountedOn(FileCard(2, 0)).boot_sector
    /\ volume_start_block = MountedOn(FileCard(2, 0)).volume_start_block
    /\ first_data_sector = MountedOn(FileCard(2, 0)).first_data_sector
    /\ data_region_sectors = MountedOn(FileCard(2, 0)).data_region_sectors
    /\ cluster_count = MountedOn(FileCard(2, 0)).cluster_count
    /\ bytes_per_cluster = MountedOn(FileCard(2, 0)).bytes_per_cluster
    /\ current_dir_cluster = MountedOn(FileCard(2, 0)).current_dir_cluster
    /\ InitCaller
    /\ mon = [failed |-> FAT32_OK, calls |-> 0]

\* The step of a call that ends as r, with the monitor.
FaultDo(name, arg, r) ==
    /\ Do(name, arg, r)
    /\ mon' = [failed |-> r.dev.e, calls |-> mon.calls + 1]

FtFileOpen ==
    /\ mon.calls < MaxFaultCalls
    /\ FaultDo("file_open", PathOld, FileOpenCall(PathOld))

FtFileCreate ==
    /\ mon.calls < MaxFaultCalls
    /\ FaultDo("file_create", PathA, FileCreateCall(PathA))

FtFileDelete ==
    /\ mon.calls < MaxFaultCalls
    /\ ~file.is_open
    /\ FaultDo("file_delete", PathOld, FileDeleteCall(PathOld))

FtFileRead ==
    /\ mon.calls < MaxFaultCalls
    /\ file.is_open
    /\ \E size \in ReadSizes : FaultDo("file_read", size, FileReadCall(size))

FtFileWrite ==
    /\ mon.calls < MaxFaultCalls
    /\ file.is_open
    /\ \E len \in WriteSizes :
        FaultDo("file_write", len,
                FileWriteCall(PayloadAt(file.position, len)))

FtDirOpen ==
    /\ mon.calls < MaxFaultCalls
    /\ FaultDo("dir_open", PathRoot, DirOpenCall(PathRoot))

FtDirRead ==
    /\ mon.calls < MaxFaultCalls
    /\ dir.is_open
    /\ FaultDo("dir_read", 0, DirReadCall)

NextFaults ==
    \/ FtFileOpen
    \/ FtFileCreate
    \/ FtFileDelete
    \/ FtFileRead
    \/ FtFileWrite
    \/ FtDirOpen
    \/ FtDirRead

SpecFaults == InitFaults /\ [][NextFaults]_vars

\* C21: when a block read or write of a file or directory operation fails,
\* the operation returns the code of that failure (ReadFailed or
\* WriteFailed), never OK and never another code.
ErrorsPropagate == mon.failed # FAT32_OK => ret = mon.failed


-----------------------------------------------------------------------------
(* Paths longer than FAT32_MAX_PATH_LEN, on the volume of PathsTree.       *)

MaxLongCalls == 3

\* A path of FAT32_MAX_PATH_LEN + 2 characters: slashes, then name, then
\* two more characters.  Its first FAT32_MAX_PATH_LEN - 1 characters after
\* the leading slash end with name.
LongPath(name) ==
    <<SLASH>> \o [i \in 1..(FAT32_MAX_PATH_LEN - 1 - Len(name)) |-> SLASH]
              \o name \o Str(<<"z", "z">>)

LongPaths == {LongPath(NameSub), LongPath(NameF), LongPath(NameNone)}

\* long says that the path of the last call was longer than
\* FAT32_MAX_PATH_LEN, card is the card before it.
InitLong ==
    /\ InitMounted(PathsCard)
    /\ mon = [calls |-> 0, long |-> FALSE, card |-> PathsCard]

LongDo(name, path, r) ==
    /\ Do(name, path, r)
    /\ mon' = [calls |-> mon.calls + 1,
               long |-> Len(path) > FAT32_MAX_PATH_LEN, card |-> blocks]

LpFileOpen ==
    /\ mon.calls < MaxLongCalls
    /\ \E path \in LongPaths : LongDo("file_open", path, FileOpenCall(path))

LpFileCreate ==
    /\ mon.calls < MaxLongCalls
    /\ \E path \in LongPaths :
        LongDo("file_create", path, FileCreateCall(path))

LpFileDelete ==
    /\ mon.calls < MaxLongCalls
    /\ \E path \in LongPaths :
        LongDo("file_delete", path, FileDeleteCall(path))

LpDirOpen ==
    /\ mon.calls < MaxLongCalls
    /\ \E path \in LongPaths : LongDo("dir_open", path, DirOpenCall(path))

LpDirCreate ==
    /\ mon.calls < MaxLongCalls
    /\ \E path \in LongPaths : LongDo("dir_create", path, DirCreateCall(path))

LpDirDelete ==
    /\ mon.calls < MaxLongCalls
    /\ \E path \in LongPaths : LongDo("dir_delete", path, DirDeleteCall(path))

LpSetCurrentDir ==
    /\ mon.calls < MaxLongCalls
    /\ \E path \in LongPaths \cup {PathSub} :
        LongDo("set_current_dir", path, SetCurrentDirCall(path))

NextLong ==
    \/ LpFileOpen
    \/ LpFileCreate
    \/ LpFileDelete
    \/ LpDirOpen
    \/ LpDirCreate
    \/ LpDirDelete
    \/ LpSetCurrentDir

SpecLong == InitLong /\ [][NextLong]_vars

\* C22: a path-taking operation given a path longer than the maximum path
\* length returns InvalidPath, does no block I/O and leaves the card as it
\* was (no truncated prefix of the path is resolved).
LongPathRejected ==
    mon.long => /\ ret = FAT32_ERROR_INVALID_PATH
                /\ io = 0
                /\ blocks = mon.card


-----------------------------------------------------------------------------
(* Closed handles: calls on a handle after its close.  The file calls run  *)
(* whether or not the handle is open.                                      *)

MaxClosedCalls == 5

DirCloseCall ==
    Res(FAT32_OK, Globals, CardDev, file, fat32_dir_close(dir), <<>>, FALSE)

\* fclosed says that the file handle was closed and not opened or created
\* with success since, fwas that it was open when it was closed; dclosed
\* and dwas say the same of the directory handle.
InitClosed ==
    /\ InitMounted(FileCard(2, 0))
    /\ mon = [calls |-> 0, fclosed |-> FALSE, fwas |-> FALSE,
              dclosed |-> FALSE, dwas |-> FALSE]

ClosedDo(name, arg, r, fields) ==
    /\ Do(name, arg, r)
    /\ mon' = [fields EXCEPT !.calls = @ + 1]

\* The monitor after a call that populates the file handle when it
\* returns err.
FilePopulated(err) ==
    IF err = FAT32_OK THEN [mon EXCEPT !.fclosed = FALSE, !.fwas = FALSE]
    ELSE mon

ClFileOpen ==
    /\ mon.calls < MaxClosedCalls
    /\ \E r \in {FileOpenCall(PathOld)} :
        ClosedDo("file_open", PathOld, r, FilePopulated(r.err))

ClFileCreate ==
    /\ mon.calls < MaxClosedCalls
    /\ \E r \in {FileCreateCall(PathA)} :
        ClosedDo("file_create", PathA, r, FilePopulated(r.err))

ClFileClose ==
    /\ mon.calls < MaxClosedCalls
    /\ ClosedDo("file_close", 0, FileCloseCall,
                [mon EXCEPT !.fclosed = TRUE, !.fwas = file.is_open])

ClFileRead ==
    /\ mon.calls < MaxClosedCalls
    /\ ClosedDo("file_read", bytes_per_cluster,
                FileReadCall(bytes_per_cluster), mon)

ClFileWrite ==
    /\ mon.calls < MaxClosedCalls
    /\ ClosedDo("file_write", FAT32_SECTOR_SIZE,
                FileWriteCall(PayloadAt(file.position, FAT32_SECTOR_SIZE)),
                mon)

ClFileSeek ==
    /\ mon.calls < MaxClosedCalls
    /\ ClosedDo("file_seek", bytes_per_cluster,
                FileSeekCall(bytes_per_cluster), mon)

ClDirOpen ==
    /\ mon.calls < MaxClosedCalls
    /\ \E r \in {DirOpenCall(PathRoot)} :
        ClosedDo("dir_open", PathRoot, r,
                 IF r.err = FAT32_OK
                 THEN [mon EXCEPT !.dclosed = FALSE, !.dwas = FALSE]
                 ELSE mon)

ClDirRead ==
    /\ mon.calls < MaxClosedCalls
    /\ ClosedDo("dir_read", 0, DirReadCall, mon)

ClDirClose ==
    /\ mon.calls < MaxClosedCalls
    /\ ClosedDo("dir_close", 0, DirCloseCall,
                [mon EXCEPT !.dclosed = TRUE, !.dwas = dir.is_open])

NextClosed ==
    \/ ClFileOpen
    \/ ClFileCreate
    \/ ClFileClose
    \/ ClFileRead
    \/ ClFileWrite
    \/ ClFileSeek
    \/ ClDirOpen
    \/ ClDirRead
    \/ ClDirClose

SpecClosed == InitClosed /\ [][NextClosed]_vars

\* C23: after file_close (dir_close) the handle is zeroed, and as long as
\* no open or create has populated it again, every file_read, file_write
\* and file_seek (dir_read) on it returns an error and does no block I/O.
ClosedStaysClosed ==
    /\ op.name = "file_close" => file = ZeroFile
    /\ op.name = "dir_close" => dir = ZeroDir
    /\ mon.fclosed => file = ZeroFile
    /\ mon.dclosed => dir = ZeroDir
    /\ (mon.fclosed /\ op.name \in {"file_read", "file_write", "file_seek"})
           => (ret # FAT32_OK /\ io = 0)
    /\ (mon.dclosed /\ op.name = "dir_read") => (ret # FAT32_OK /\ io = 0)

\* An open file handle and an open directory handle were closed and a
\* file_write on the closed file handle was refused.
ClosedStaysClosedDone ==
    /\ mon.fclosed /\ mon.fwas
    /\ mon.dclosed /\ mon.dwas
    /\ op.name = "file_write"
    /\ ret = FAT32_ERROR_INVALID_PARAMETER


-----------------------------------------------------------------------------
(* Volumes fat32_mount must reject.                                        *)

\* Boot sectors that fail one test of is_valid_fat32_boot_sector each, and
\* one whose volume has too few clusters.
InvalidBoots ==
    {[Bpb(2) EXCEPT !.bytes_per_sector = 2 * FAT32_SECTOR_SIZE],
     [Bpb(2) EXCEPT !.sectors_per_cluster = 0],
     [Bpb(2) EXCEPT !.sectors_per_cluster = 129],
     [Bpb(2) EXCEPT !.sectors_per_cluster = 3],
     [Bpb(2) EXCEPT !.num_fats = 0],
     [Bpb(2) EXCEPT !.num_fats = 3],
     [Bpb(2) EXCEPT !.fat_size_16 = 1],
     [Bpb(2) EXCEPT !.fat_size_32 = 0],
     [Bpb(2) EXCEPT !.total_sectors_32 = 0],
     [Bpb(2) EXCEPT !.total_sectors_32 = @ - 2]}

\* The cards with such a boot sector, without and with a partition table.
InvalidCards ==
    {CardWithBoot(MountCard(0, FALSE), 0, bs) : bs \in InvalidBoots}
        \cup {CardWithBoot(MountCard(1, TRUE), 1, bs) : bs \in InvalidBoots}

FormatCards == ValidCards \cup InvalidCards

InitFormat ==
    /\ card_present = TRUE
    /\ blocks \in FormatCards
    /\ fat32_initialised = FALSE
    /\ fat32_mounted = InitGlobals.fat32_mounted
    /\ mount_status = InitGlobals.mount_status
    /\ boot_sector = InitGlobals.boot_sector
    /\ volume_start_block = InitGlobals.volume_start_block
    /\ first_data_sector = InitGlobals.first_data_sector
    /\ data_region_sectors = InitGlobals.data_region_sectors
    /\ cluster_count = InitGlobals.cluster_count
    /\ bytes_per_cluster = InitGlobals.bytes_per_cluster
    /\ current_dir_cluster = InitGlobals.current_dir_cluster
    /\ InitCaller
    /\ mon = MonMountInit

\* Another card is put into the empty slot.
FormatCardInsert ==
    /\ ~card_present
    /\ card_present' = TRUE
    /\ blocks' \in FormatCards
    /\ Event("card_insert", [mon EXCEPT !.returned = mon.absent_seen,
                                        !.absent_seen = FALSE])
    /\ UNCHANGED <<fat32_initialised, statics>>

NextFormat ==
    \/ FsInit
    \/ Mount
    \/ Unmount
    \/ CardRemove
    \/ FormatCardInsert
    \/ Detect
    \/ GetStatus

SpecFormat == InitFormat /\ [][NextFormat]_vars

\* C24 as stated: fat32_mount with a card in the slot whose boot sector
\* fails validation, or whose volume has fewer clusters than FAT32 needs,
\* returns InvalidFormat and leaves the volume unmounted.
MountRejectsAlways ==
    (op.name = "mount" /\ card_present /\ blocks \in InvalidCards)
        => (ret = FAT32_ERROR_INVALID_FORMAT /\ ~fat32_is_mounted(Globals))

\* C24, amended: fat32_mount called while no volume is mounted, with a
\* card in the slot whose boot sector fails validation or whose volume has
\* fewer clusters than FAT32 needs, returns InvalidFormat and leaves the
\* volume unmounted.
MountRejects ==
    (op.name = "mount" /\ card_present /\ blocks \in InvalidCards
       /\ ~mon.remount)
        => (ret = FAT32_ERROR_INVALID_FORMAT /\ ~fat32_is_mounted(Globals))

\* fat32_mount has rejected a volume with a 16-bit FAT size, found in a
\* partition.
MountRejectsDone ==
    /\ op.name = "mount" /\ card_present /\ ~mon.remount
    /\ blocks = CardWithBoot(MountCard(1, TRUE), 1,
                             [Bpb(2) EXCEPT !.fat_size_16 = 1])
    /\ ret = FAT32_ERROR_INVALID_FORMAT
    /\ io = 2


-----------------------------------------------------------------------------
(* Long-name checksums in a root directory of three clusters.              *)

MaxSumCalls == 4

\* One LFN slot and two LFN slots.
SumNames == {NamePlus, Name14}

\* calls is the number of calls made, before the slots of the root
\* directory before the last call.
InitSums ==
    /\ InitMounted(NamesCard(<<2, 3, 4>>))
    /\ mon = [calls |-> 0, before |-> <<>>]

SmFileCreate ==
    /\ mon.calls < MaxSumCalls
    /\ \E name \in SumNames :
        /\ Do("file_create", InRoot(name), FileCreateCall(InRoot(name)))
        /\ mon' = [calls |-> mon.calls + 1, before |-> RootSlots]

SmDirCreate ==
    /\ mon.calls < MaxSumCalls
    /\ \E name \in {NameComma} :
        /\ Do("dir_create", InRoot(name), DirCreateCall(InRoot(name)))
        /\ mon' = [calls |-> mon.calls + 1, before |-> RootSlots]

SmFileDelete ==
    /\ mon.calls < MaxSumCalls
    /\ \E name \in SumNames :
        /\ Do("file_delete", InRoot(name), FileDeleteCall(InRoot(name)))
        /\ mon' = [calls |-> mon.calls + 1, before |-> RootSlots]

SmDirDelete ==
    /\ mon.calls < MaxSumCalls
    /\ \E name \in {NameComma} :
        /\ Do("dir_delete", InRoot(name), DirDeleteCall(InRoot(name)))
        /\ mon' = [calls |-> mon.calls + 1, before |-> RootSlots]

NextSums ==
    \/ SmFileCreate
    \/ SmDirCreate
    \/ SmFileDelete
    \/ SmDirDelete

SpecSums == InitSums /\ [][NextSums]_vars

\* A slot in use: its first byte is neither the free mark nor the end
\* marker.
InUse(e) ==
    e.b0 # FAT32_DIR_ENTRY_FREE /\ e.b0 # FAT32_DIR_ENTRY_END_MARKER

\* The LFN run of the 8.3 slot i of slots: the LFN slots in use that stand
\* directly before it, back to the first one that carries the
\* last-long-entry flag 0x40.
LfnRunOf(slots, i) ==
    {j \in 1..(i - 1) :
        /\ \A k \in j..(i - 1) : IsLfnSlot(slots[k]) /\ InUse(slots[k])
        /\ \A k \in (j + 1)..(i - 1) : slots[k].b0 < 64}

\* C25: checksum law.  Every LFN slot of the run of a live 8.3 slot of the
\* root directory carries the checksum of the 11-byte short name in that
\* 8.3 slot.
ChecksumLaw ==
    \A i \in 1..Len(RootSlots) :
        (~IsLfnSlot(RootSlots[i]) /\ InUse(RootSlots[i]))
            => \A j \in LfnRunOf(RootSlots, i) :
                   RootSlots[j].chk = shortname_checksum(RootSlots[i].name)


-----------------------------------------------------------------------------
(* The current directory under all calls, on the volume of PathsTree.      *)

MaxFrameCalls == 3

PathSubD == PathSub \o <<SLASH>> \o NameD
PathF == <<SLASH>> \o NameF

\* cwd0 and mounted0 are current_dir_cluster and fat32_mounted before the
\* last call.
InitFrame ==
    /\ InitMounted(PathsCard)
    /\ mon = [calls |-> 0, cwd0 |-> MountedOn(PathsCard).current_dir_cluster,
              mounted0 |-> TRUE]

FrameDo(name, arg, r) ==
    /\ Do(name, arg, r)
    /\ mon' = [calls |-> mon.calls + 1, cwd0 |-> current_dir_cluster,
               mounted0 |-> fat32_mounted]

\* Two directories, the parent, a missing name and a file.
FrSetCurrentDir ==
    /\ mon.calls < MaxFrameCalls
    /\ \E path \in {PathSub, PathSubD, <<DOT, DOT>>, InRoot(NameNone), PathF} :
        FrameDo("set_current_dir", path, SetCurrentDirCall(path))

FrGetCurrentDir ==
    /\ mon.calls < MaxFrameCalls
    /\ FrameDo("get_current_dir", 0, GetCurrentDirCall)

FrFileOpen ==
    /\ mon.calls < MaxFrameCalls
    /\ \E path \in {PathF, NameX} :
        FrameDo("file_open", path, FileOpenCall(path))

FrFileCreate ==
    /\ mon.calls < MaxFrameCalls
    /\ \E path \in {NameE, InRoot(NameNone)} :
        FrameDo("file_create", path, FileCreateCall(path))

FrFileRead ==
    /\ mon.calls < MaxFrameCalls
    /\ FrameDo("file_read", FAT32_SECTOR_SIZE, FileReadCall(FAT32_SECTOR_SIZE))

FrFileWrite ==
    /\ mon.calls < MaxFrameCalls
    /\ FrameDo("file_write", FAT32_SECTOR_SIZE,
               FileWriteCall(PayloadAt(file.position, FAT32_SECTOR_SIZE)))

FrFileDelete ==
    /\ mon.calls < MaxFrameCalls
    /\ \E path \in {NameX, PathF} :
        FrameDo("file_delete", path, FileDeleteCall(path))

FrDirOpen ==
    /\ mon.calls < MaxFrameCalls
    /\ \E path \in {<<DOT>>, PathSub} :
        FrameDo("dir_open", path, DirOpenCall(path))

FrDirRead ==
    /\ mon.calls < MaxFrameCalls
    /\ FrameDo("dir_read", 0, DirReadCall)

FrDirCreate ==
    /\ mon.calls < MaxFrameCalls
    /\ \E path \in {NameE} :
        FrameDo("dir_create", path, DirCreateCall(path))

FrDirDelete ==
    /\ mon.calls < MaxFrameCalls
    /\ \E path \in {NameD, PathSubD} :
        FrameDo("dir_delete", path, DirDeleteCall(path))

NextFrame ==
    \/ FrSetCurrentDir
    \/ FrGetCurrentDir
    \/ FrFileOpen
    \/ FrFileCreate
    \/ FrFileRead
    \/ FrFileWrite
    \/ FrFileDelete
    \/ FrDirOpen
    \/ FrDirRead
    \/ FrDirCreate
    \/ FrDirDelete

SpecFrame == InitFrame /\ [][NextFrame]_vars

\* C26: while the volume stays mounted, a call that leaves
\* current_dir_cluster other than it found it is a fat32_set_current_dir
\* that returned OK.
CwdFrame ==
    (mon.mounted0 /\ fat32_mounted /\ current_dir_cluster # mon.cwd0)
        => (op.name = "set_current_dir" /\ ret = FAT32_OK)

\* With the current directory below the root, a fat32_set_current_dir
\* failed and left it alone.
CwdFrameDone ==
    /\ op.name = "set_current_dir"
    /\ ret # FAT32_OK
    /\ mon.mounted0 /\ fat32_mounted
    /\ mon.cwd0 # boot_sector.root_cluster
    /\ current_dir_cluster = mon.cwd0


\* C27: on a mounted volume no call writes a reserved sector or frees the
\* root directory.  Volume sector 0 still holds the boot sector that was
\* mounted, the other reserved sectors hold what they held, and the FAT
\* entry of the root cluster is not FREE; fat32_dir_delete("/") included.
ReservedKept ==
    fat32_mounted
        => /\ blocks[volume_start_block] = [k |-> "bpb", c |-> boot_sector]
           /\ \A s \in 1..(boot_sector.reserved_sectors - 1) :
                  blocks[volume_start_block + s].k = "fsi"
           /\ FatOf(Globals, blocks, boot_sector.root_cluster)
                  # FAT32_FAT_ENTRY_FREE


\* C28: creating an entry never overwrites a live directory slot.  Every
\* slot of the root directory that was in use before fat32_file_create or
\* fat32_dir_create holds afterwards what it held, also when the free run
\* continues from one cluster of the directory into the next.
NoLiveOverwrite ==
    op.name \in {"file_create", "dir_create"}
        => \A i \in 1..Len(mon.before) :
               InUse(mon.before[i]) => RootSlots[i] = mon.before[i]


-----------------------------------------------------------------------------
(* The long-name staging buffer of fat32_dir_read, in a root directory of  *)
(* one cluster whose slots the driver writes and frees.                    *)

MaxStageCalls == 5

\* ub says that the last call wrote outside the staging buffer.
InitStage ==
    /\ InitMounted(NamesCard(<<2>>))
    /\ mon = [calls |-> 0, ub |-> FALSE]

StageDo(name, arg, r) ==
    /\ Do(name, arg, r)
    /\ mon' = [calls |-> mon.calls + 1, ub |-> r.ub]

SgFileCreate ==
    /\ mon.calls < MaxStageCalls
    /\ \E name \in SumNames :
        StageDo("file_create", InRoot(name), FileCreateCall(InRoot(name)))

SgFileDelete ==
    /\ mon.calls < MaxStageCalls
    /\ \E name \in SumNames :
        StageDo("file_delete", InRoot(name), FileDeleteCall(InRoot(name)))

SgDirOpen ==
    /\ mon.calls < MaxStageCalls
    /\ StageDo("dir_open", PathRoot, DirOpenCall(PathRoot))

SgDirRead ==
    /\ mon.calls < MaxStageCalls
    /\ dir.is_open
    /\ StageDo("dir_read", 0, DirReadCall)

NextStage ==
    \/ SgFileCreate
    \/ SgFileDelete
    \/ SgDirOpen
    \/ SgDirRead

SpecStage == InitStage /\ [][NextStage]_vars

\* C29: fat32_dir_read never writes outside its long-name staging buffer:
\* for every slot with attr 0x0F it decodes, the 13 bytes at offset
\* ((seq & 0x3F) - 1) * 13 lie inside the buffer, whatever the slot holds,
\* an LFN slot freed by a delete included.
StagingInBounds == op.name = "dir_read" => ~mon.ub


\* The start clusters of the live directories of the volume on card b: the
\* directory at cluster and those its live 8.3 slots lead to, depth levels
\* deep.
RECURSIVE LiveDirs(_, _, _, _)
LiveDirs(g, b, cluster, depth) ==
    LET live == LiveSlots(g, b, cluster)
        below == {live[i].clus :
                    i \in {j \in 1..Len(live) :
                             HasAttr(live[j].attr, FAT32_ATTR_DIRECTORY)}}
    IN  {cluster}
          \cup (IF depth = 0 THEN {}
                ELSE UNION {LiveDirs(g, b, c, depth - 1) : c \in below})

\* C30: while the volume is mounted, current_dir_cluster is the start
\* cluster of a live directory, the root or one whose 8.3 slot is live and
\* whose chain is allocated; fat32_dir_delete does not free the current
\* directory.
CwdLive ==
    fat32_mounted
        => /\ current_dir_cluster
                \in LiveDirs(Globals, blocks, boot_sector.root_cluster,
                             TreeDepth + 1)
           /\ FatOf(Globals, blocks, current_dir_cluster)
                  # FAT32_FAT_ENTRY_FREE

-----------------------------------------------------------------------------
(* Which volume of the card fat32_mount selects.                           *)

\* A partition table entry.
Part(indicator, type, lba) ==
    [boot_indicator |-> indicator, partition_type |-> type,
     start_lba |-> lba]

\* Sectors 0 of a card whose volume starts at LBA 1: the partition tables
\* that name it in some entry, behind entries of other types or with other
\* boot indicators, that name it twice, that name another sector first,
\* that name no FAT32 partition, and that name LBA 0.
SelectTables ==
    {<<Part(128, 12, 1), ZeroPart, ZeroPart, ZeroPart>>,
     <<Part(0, 11, 1), ZeroPart, ZeroPart, ZeroPart>>,
     <<Part(128, 131, 5), Part(0, 12, 1), ZeroPart, ZeroPart>>,
     <<Part(1, 12, 5), ZeroPart, Part(128, 11, 1), ZeroPart>>,
     <<ZeroPart, ZeroPart, ZeroPart, Part(0, 12, 1)>>,
     <<Part(128, 12, 1), Part(128, 12, 5), ZeroPart, ZeroPart>>,
     <<Part(128, 12, 5), Part(128, 12, 1), ZeroPart, ZeroPart>>,
     <<Part(128, 131, 1), ZeroPart, ZeroPart, ZeroPart>>,
     <<Part(128, 12, 0), ZeroPart, ZeroPart, ZeroPart>>}

\* Bytes the boot code of a boot sector may hold where a partition table
\* has its entries: none, a byte at offset 450, at offset 498, and bytes
\* that read as an active FAT32 entry.
SelectBootCode ==
    {<<ZeroPart, ZeroPart, ZeroPart, ZeroPart>>,
     <<Part(0, 32, 0), ZeroPart, ZeroPart, ZeroPart>>,
     <<ZeroPart, ZeroPart, ZeroPart, Part(116, 101, 0)>>,
     <<Part(128, 12, 1), ZeroPart, ZeroPart, ZeroPart>>}

\* The cards: a partitioned card under each table, a card that is one
\* volume under each boot code, and cards whose sector 0 is neither.
SelectCards ==
    {CardWithBoot(MountCard(1, TRUE), 0, [Mbr(1) EXCEPT !.parts = t]) :
        t \in SelectTables}
      \cup {CardWithBoot(MountCard(0, FALSE), 0,
                         [Bpb(2) EXCEPT !.parts = c]) : c \in SelectBootCode}
      \cup {CardWithBoot(MountCard(0, FALSE), 0, [Bpb(2) EXCEPT !.jump = 0]),
            CardWithBoot(MountCard(0, FALSE), 0,
                         [Bpb(2) EXCEPT !.sig = FALSE])}

InitSelect ==
    /\ card_present = TRUE
    /\ blocks \in SelectCards
    /\ fat32_initialised = FALSE
    /\ fat32_mounted = InitGlobals.fat32_mounted
    /\ mount_status = InitGlobals.mount_status
    /\ boot_sector = InitGlobals.boot_sector
    /\ volume_start_block = InitGlobals.volume_start_block
    /\ first_data_sector = InitGlobals.first_data_sector
    /\ data_region_sectors = InitGlobals.data_region_sectors
    /\ cluster_count = InitGlobals.cluster_count
    /\ bytes_per_cluster = InitGlobals.bytes_per_cluster
    /\ current_dir_cluster = InitGlobals.current_dir_cluster
    /\ InitCaller
    /\ mon = MonMountInit

\* Another card is put into the empty slot.
SelectCardInsert ==
    /\ ~card_present
    /\ card_present' = TRUE
    /\ blocks' \in SelectCards
    /\ Event("card_insert", [mon EXCEPT !.returned = mon.absent_seen,
                                        !.absent_seen = FALSE])
    /\ UNCHANGED <<fat32_initialised, statics>>

NextSelect ==
    \/ FsInit
    \/ Mount
    \/ Unmount
    \/ CardRemove
    \/ SelectCardInsert
    \/ Detect

SpecSelect == InitSelect /\ [][NextSelect]_vars

\* The partition table entries of sector that name a FAT32 partition.
Fat32Parts(sector) ==
    {i \in 1..4 : /\ sector.parts[i].boot_indicator \in {0, 128}
                  /\ sector.parts[i].partition_type \in {11, 12}}

\* The sector at lba of card b is the boot sector of a FAT32 volume that
\* fat32_mount accepts.
VolumeAt(b, lba) ==
    /\ lba \in DOMAIN b
    /\ is_valid_fat32_boot_sector(AsBoot(b[lba])) = FAT32_OK
    /\ (AsBoot(b[lba]).total_sectors_32
          - AsBoot(b[lba]).num_fats * AsBoot(b[lba]).fat_size_32)
         \div AsBoot(b[lba]).sectors_per_cluster >= MinClusterCount

\* What fat32_mount has to leave when it selects the volume at lba.
Selected(lba) ==
    IF VolumeAt(blocks, lba)
    THEN /\ ret = FAT32_OK
         /\ fat32_mounted
         /\ volume_start_block = lba
         /\ boot_sector = AsBoot(blocks[lba])
    ELSE ret = FAT32_ERROR_INVALID_FORMAT /\ ~fat32_mounted

\* C31: fat32_mount on an unmounted volume selects the whole device when
\* sector 0 is a boot sector (signature, jump byte, bytes per sector),
\* whatever its boot code holds where a partition table has its entries;
\* else, when sector 0 is a partition table, the first entry with boot
\* indicator 0x00 or 0x80 and type 0x0B or 0x0C; else it returns
\* InvalidFormat.
VolumeSelection ==
    (op.name = "mount" /\ card_present /\ ~mon.remount)
        => LET s == AsBoot(blocks[0])
           IN  IF is_sector_boot_sector(s) THEN Selected(0)
               ELSE IF is_sector_mbr(s) /\ Fat32Parts(s) # {}
               THEN Selected(
                        s.parts[CHOOSE i \in Fat32Parts(s) :
                                  \A j \in Fat32Parts(s) : i <= j].start_lba)
               ELSE ret = FAT32_ERROR_INVALID_FORMAT /\ ~fat32_mounted

-----------------------------------------------------------------------------
(* The numeric tail of synthesized short names.                            *)

\* Creates per run.
MaxTailCalls == 3

NameReally ==
    Str(<<"A", " ", "r", "e", "a", "l", "l", "y", " ", "l", "o", "n", "g",
          " ", "n", "a", "m", "e", ".", "d", "a", "t">>)
NameFSpaced == Str(<<"f", " ", ".", "t", "x", "t">>)
NameText == Str(<<"a", ".", "t", "e", "x", "t">>)

\* A name that fits 8.3, one that yields the same candidate, a lossy one,
\* one with a long base, one with a long extension, and the long one with
\* spaces.
TailNames == {NameF, NameFSpaced, NamePlus, Name13, NameText, NameReally}

\* An empty root directory of one cluster of eight slots; before holds the
\* short names of the live slots of the root before the last call, name
\* the name that call created.
InitTail ==
    /\ InitMounted(Card(4, 0, ChainFat(<<2>>), <<2>>, <<>>, <<>>, <<>>))
    /\ mon = [calls |-> 0, before |-> {}, name |-> <<>>]

\* The short names of the live 8.3 slots of the root directory.
RootShortnames ==
    {LiveSlots(Globals, blocks, boot_sector.root_cluster)[i].name :
        i \in 1..Len(LiveSlots(Globals, blocks, boot_sector.root_cluster))}

TlFileCreate ==
    /\ mon.calls < MaxTailCalls
    /\ \E name \in TailNames :
        \E r \in {FileCreateCall(InRoot(name))} :
            /\ Do("file_create", InRoot(name), r)
            /\ mon' = [calls |-> mon.calls + 1, before |-> RootShortnames,
                       name |-> IF r.err = FAT32_OK THEN name ELSE <<>>]

TlDirCreate ==
    /\ mon.calls < MaxTailCalls
    /\ \E name \in {NamePlus, NameText} :
        \E r \in {DirCreateCall(InRoot(name))} :
            /\ Do("dir_create", InRoot(name), r)
            /\ mon' = [calls |-> mon.calls + 1, before |-> RootShortnames,
                       name |-> IF r.err = FAT32_OK THEN name ELSE <<>>]

NextTail ==
    \/ TlFileCreate
    \/ TlDirCreate

SpecTail == InitTail /\ [][NextTail]_vars

\* The long name in capitals without its spaces and leading dots, its base
\* (the part before the last dot) and its extension, at full length.
Stripped(longname) ==
    strip_leading_dots(
        SelectSeq([i \in 1..Len(longname) |-> toupper(longname[i])],
                  LAMBDA c : c # SPACE))

FullBase(longname) ==
    IF strrchr(Stripped(longname), DOT) > 1
    THEN SubSeq(Stripped(longname), 1, strrchr(Stripped(longname), DOT) - 1)
    ELSE Stripped(longname)

FullExt(longname) ==
    IF strrchr(Stripped(longname), DOT) > 1
    THEN SubSeq(Stripped(longname), strrchr(Stripped(longname), DOT) + 1,
                Len(Stripped(longname)))
    ELSE <<>>

\* The base cut to n characters and the extension cut to three, other
\* characters than the allowed ones replaced by the underscore.
CutBase(longname, n) ==
    [i \in 1..Min(n, Len(FullBase(longname))) |->
        basis_char(FullBase(longname)[i])]

CutExt(longname) ==
    [i \in 1..Min(3, Len(FullExt(longname))) |->
        basis_char(FullExt(longname)[i])]

\* The long name loses characters other than spaces and leading dots.
Lossy(longname) ==
    \/ \E i \in 1..Len(FullBase(longname)) :
          ~basis_allowed(FullBase(longname)[i])
    \/ \E i \in 1..Len(FullExt(longname)) :
          ~basis_allowed(FullExt(longname)[i])

\* The candidate with the tail ~n.
Tailed(longname, n) ==
    candidate_of(CutBase(longname, 8 - Len(<<TILDE>> \o decimal(n)))
                   \o <<TILDE>> \o decimal(n),
                 CutExt(longname))

\* The short name the rule gives longname in a directory that holds the
\* short names existing.
RuleShortname(longname, existing) ==
    IF \/ Lossy(longname)
       \/ Len(FullBase(longname)) > 8
       \/ Len(FullExt(longname)) > 3
       \/ candidate_of(CutBase(longname, 8), CutExt(longname)) \in existing
    THEN Tailed(longname,
                CHOOSE n \in 1..(MaxTailCalls + 1) :
                    /\ Tailed(longname, n) \notin existing
                    /\ \A k \in 1..(n - 1) : Tailed(longname, k) \in existing)
    ELSE candidate_of(CutBase(longname, 8), CutExt(longname))

\* C32: the short name stored by a successful create of a name that is no
\* 8.3 name itself is the one the numeric tail rule gives: with the tail
\* ~N of the smallest free N when the long name is lossy, its base is longer than 8 or its extension
\* longer than 3 characters, or the untailed candidate exists in the
\* directory; without a tail otherwise.
NumericTailRule ==
    (mon.name # <<>> /\ ~valid_shortname(mon.name))
        => RootShortnames
             = mon.before \cup {RuleShortname(mon.name, mon.before)}

-----------------------------------------------------------------------------
(* Single FAT entries.                                                     *)

\* Calls per run.
MaxFatCalls == 3

\* The reserved top bits of a FAT word start here (bit 28).  The words of
\* the model hold three of the four top bits.
TopUnit == LowBits + 1

\* A volume whose FAT words carry top bits: cluster 5 links to 6 under the
\* top bits 0101, cluster 6 ends the chain under the top bits 0111.
TopBitsCard ==
    Card(2, 0,
         (2 :> FAT32_FAT_ENTRY_EOC) @@ (5 :> 5 * TopUnit + 6)
           @@ (6 :> 7 * TopUnit + LowBits),
         <<2>>, <<>>, <<>>, <<>>)

\* Clusters and values the calls are made with: the two reserved entries,
\* clusters with and without top bits on the card, values with and without
\* bits above the 28th.
FatClusters == {0, 1, 2, 5, 6}
FatValues == {FAT32_FAT_ENTRY_FREE, TopUnit + 7, FAT32_FAT_ENTRY_EOC}

\* The words of the first FAT sector of the card.
FatWords == AsFat(blocks[volume_start_block + boot_sector.reserved_sectors])

\* words holds the FAT words before the last call, written the value last
\* written to each cluster (-1: none).
InitFat ==
    /\ InitMounted(TopBitsCard)
    /\ mon = [calls |-> 0, words |-> FatWords,
              written |-> [c \in FatClusters |-> -1]]

FeWrite ==
    /\ mon.calls < MaxFatCalls
    /\ \E c \in FatClusters, v \in FatValues :
        \E r \in {write_cluster_fat_entry(Globals, CardDev, c, v)} :
            /\ Do("write_fat_entry", <<c, v>>,
                  Res(r.err, Globals, r.dev, file, dir, <<>>, FALSE))
            /\ mon' = [calls |-> mon.calls + 1, words |-> FatWords,
                       written |-> IF r.err = FAT32_OK
                                   THEN [mon.written EXCEPT ![c] = v]
                                   ELSE mon.written]

FeRead ==
    /\ mon.calls < MaxFatCalls
    /\ \E c \in FatClusters :
        \E r \in {read_cluster_fat_entry(Globals, CardDev, c)} :
            /\ Do("read_fat_entry", <<c>>,
                  Res(r.err, Globals, r.dev, file, dir,
                      IF r.err = FAT32_OK THEN <<r.value>> ELSE <<>>, FALSE))
            /\ mon' = [mon EXCEPT !.calls = @ + 1, !.words = FatWords]

NextFat ==
    \/ FeWrite
    \/ FeRead

SpecFat == InitFat /\ [][NextFat]_vars

\* C33: write_cluster_fat_entry(c, v) on a cluster c >= 2 of the volume
\* keeps the bits of the on-disk word above the 28th, sets the low 28 bits
\* to those of v and changes no other FAT word; read_cluster_fat_entry(c)
\* then returns the low 28 bits of v; for c < 2 both return
\* InvalidParameter without a block transfer and without a change.
FatEntryMasked ==
    /\ (op.name = "write_fat_entry" /\ op.arg[1] >= 2)
         => /\ ret = FAT32_OK
            /\ FatWords[op.arg[1] + 1] \div TopUnit
                 = mon.words[op.arg[1] + 1] \div TopUnit
            /\ FatWords[op.arg[1] + 1] % TopUnit = op.arg[2] % TopUnit
            /\ \A i \in DOMAIN FatWords :
                   i # op.arg[1] + 1 => FatWords[i] = mon.words[i]
    /\ (op.name = "read_fat_entry" /\ op.arg[1] >= 2)
         => /\ ret = FAT32_OK
            /\ FatWords = mon.words
            /\ mon.written[op.arg[1]] # -1
                 => out = <<mon.written[op.arg[1]] % TopUnit>>
    /\ (op.name \in {"write_fat_entry", "read_fat_entry"} /\ op.arg[1] < 2)
         => /\ ret = FAT32_ERROR_INVALID_PARAMETER
            /\ io = 0
            /\ FatWords = mon.words

\* A value with a bit above the 28th was written to cluster 5, whose word
\* keeps its top bits, and read back.
FatEntryMaskedDone ==
    /\ op = [name |-> "read_fat_entry", arg |-> <<5>>]
    /\ mon.written[5] = TopUnit + 7
    /\ out = <<7>>
    /\ FatWords[6] = 5 * TopUnit + 7

-----------------------------------------------------------------------------
(* Cluster allocation: files a, b and c, then b deleted and d created.     *)

NameA == Str(<<"a">>)
NameB == Str(<<"b">>)
NameC == Str(<<"c">>)

\* The files in the order they are created: the fourth after b is deleted.
AllocOrder == <<NameA, NameB, NameC, NameD>>

\* The most clusters a write of the allocation runs gives a file.
MaxAllocClusters == 3

\* The lengths written: into the cluster the create allocated, and into
\* one more cluster up to MaxAllocClusters.
AllocSizes ==
    {1} \cup {(k - 1) * bytes_per_cluster + 1 : k \in 2..MaxAllocClusters}

\* The clusters of the volume whose FAT entry is free.
FreeClusters ==
    {c \in 2..(cluster_count + 1) :
        FatOf(Globals, blocks, c) = FAT32_FAT_ENTRY_FREE}

\* The clusters of the chain of the file behind the handle.
FileClusters(f) ==
    {ChainFrom(Globals, blocks, f.start_cluster, <<>>)[i] :
        i \in 1..Len(ChainFrom(Globals, blocks, f.start_cluster, <<>>))}

\* made: the files created; wrote: the file behind the handle was written
\* or b was deleted since it was created; deleted: b was deleted; free0: the free clusters before the last call;
\* bsize and bclusters: the size and the clusters of b; dsize: the size of
\* d; ub: a call ran into undefined behaviour.
InitAlloc ==
    /\ InitMounted(NamesCard(<<2, 3>>))
    /\ mon = [made |-> 0, wrote |-> FALSE, deleted |-> FALSE, free0 |-> {},
              bsize |-> 0, bclusters |-> {}, dsize |-> -1, ub |-> FALSE]

AlFileCreate ==
    /\ mon.made < 3 \/ (mon.made = 3 /\ mon.deleted)
    /\ \E r \in {FileCreateCall(InRoot(AllocOrder[mon.made + 1]))} :
        /\ Do("file_create", InRoot(AllocOrder[mon.made + 1]), r)
        /\ mon' = IF r.err # FAT32_OK
                  THEN [mon EXCEPT !.free0 = FreeClusters,
                                   !.ub = @ \/ r.ub]
                  ELSE [mon EXCEPT
                          !.made = @ + 1, !.wrote = FALSE,
                          !.free0 = FreeClusters,
                          !.ub = @ \/ r.ub,
                          !.bsize = IF mon.made = 1 THEN 0 ELSE @,
                          !.bclusters = IF mon.made = 1
                                        THEN {r.file.start_cluster} ELSE @,
                          !.dsize = IF mon.made = 3 THEN 0 ELSE @]

AlFileWrite ==
    /\ file.is_open
    /\ ~mon.wrote
    /\ \E len \in AllocSizes :
        \E r \in {FileWriteCall(Payload(len))} :
            /\ Do("file_write", len, r)
            /\ mon' = [mon EXCEPT
                         !.wrote = TRUE,
                         !.free0 = FreeClusters,
                         !.bsize = IF mon.made = 2 /\ ~mon.deleted
                                   THEN r.file.file_size ELSE @,
                         !.bclusters =
                             IF mon.made = 2 /\ ~mon.deleted
                             THEN {c \in 2..(cluster_count + 1) :
                                     \E i \in 0..MaxAllocClusters :
                                        ChainAt(r.g, r.dev.b,
                                                r.file.start_cluster, i) = c}
                             ELSE @,
                         !.dsize = IF mon.made = 4 THEN r.file.file_size
                                   ELSE @]

AlFileDelete ==
    /\ mon.made = 3
    /\ ~mon.deleted
    /\ \E r \in {FileDeleteCall(InRoot(NameB))} :
        /\ Do("file_delete", InRoot(NameB), r)
        /\ mon' = [mon EXCEPT !.deleted = (r.err = FAT32_OK),
                              !.wrote = TRUE,
                              !.free0 = FreeClusters,
                              !.ub = @ \/ r.ub]

NextAlloc ==
    \/ AlFileCreate
    \/ AlFileWrite
    \/ AlFileDelete

SpecAlloc == InitAlloc /\ [][NextAlloc]_vars

\* C34, allocation: the clusters a create or a write takes are the
\* smallest free ones, and the call returns DiskFull only when no cluster
\* is free.
FirstFit ==
    op.name \in {"file_create", "file_write"}
        => /\ \A c \in mon.free0 \ FreeClusters :
                \A e \in FreeClusters : c < e
           /\ ret = FAT32_ERROR_DISK_FULL => FreeClusters = {}

-----------------------------------------------------------------------------
(* release_cluster_chain, one iteration of its loop per step, on every     *)
(* content of three FAT entries.                                           *)

\* The clusters whose FAT entries vary and the values they hold: free, the
\* reserved cluster 1, each other (chains, cycles, self-links) and the end
\* of chain.
ReleaseClusters == {4, 5, 6}
ReleaseLinks ==
    {FAT32_FAT_ENTRY_FREE, 1, FAT32_FAT_ENTRY_EOC} \cup ReleaseClusters

ReleaseCards ==
    {Card(2, 0, (2 :> FAT32_FAT_ENTRY_EOC) @@ fat, <<2>>, <<>>, <<>>, <<>>) :
        fat \in [ReleaseClusters -> ReleaseLinks]}

\* The start clusters: a reserved entry, and clusters of the volume.
ReleaseStarts == {1, 4, 5}

\* fat0: the FAT entries before the call; start: its argument; touched:
\* the clusters whose FAT sector the call has read or written.
InitRelease ==
    /\ \E card \in ReleaseCards : InitMounted(card)
    /\ mon = [calls |-> 0, fat0 |-> <<>>, start |-> 0, touched |-> {}]

\* release_cluster_chain that leaves the entries it passes as they are.
release_step_unmarked(g, dev, cluster) ==
    IF ~(cluster < FAT32_FAT_ENTRY_EOC)
    THEN [err |-> FAT32_OK, dev |-> dev, done |-> TRUE, next |-> cluster]
    ELSE Let([r \in {read_cluster_fat_entry(g, dev, cluster)}
         |-> IF r.err # FAT32_OK
             THEN [err |-> r.err, dev |-> r.dev, done |-> TRUE,
                   next |-> cluster]
             ELSE [err |-> FAT32_OK, dev |-> r.dev,
                   done |-> r.value >= FAT32_FAT_ENTRY_EOC,
                   next |-> IF r.value >= FAT32_FAT_ENTRY_EOC THEN cluster
                            ELSE r.value]])

\* One iteration of the loop of release_cluster_chain (fat32.c:240-260):
\* done says that the function returns err, next is the cluster of the
\* following iteration.
release_step(g, dev, cluster) ==
    IF ~(cluster < FAT32_FAT_ENTRY_EOC)
    THEN [err |-> FAT32_OK, dev |-> dev, done |-> TRUE, next |-> cluster]
    ELSE Let([r \in {read_cluster_fat_entry(g, dev, cluster)}
         |-> IF r.err # FAT32_OK
             THEN [err |-> r.err, dev |-> r.dev, done |-> TRUE,
                   next |-> cluster]
             ELSE Let([w \in {write_cluster_fat_entry(g, r.dev, cluster,
                                                   FAT32_FAT_ENTRY_FREE)}
                  |-> IF w.err # FAT32_OK
                      THEN [err |-> w.err, dev |-> w.dev, done |-> TRUE,
                            next |-> cluster]
                      ELSE [err |-> FAT32_OK, dev |-> w.dev,
                            done |-> r.value >= FAT32_FAT_ENTRY_EOC,
                            next |-> IF r.value >= FAT32_FAT_ENTRY_EOC
                                     THEN cluster ELSE r.value]])])

\* The call begins (fat32.c:232-239).
RlBegin ==
    /\ pc = "idle"
    /\ mon.calls = 0
    /\ \E start \in ReleaseStarts :
        /\ mon' = [calls |-> 1, fat0 |-> FatWords, start |-> start,
                   touched |-> {}]
        /\ op' = [name |-> "release_cluster_chain", arg |-> start]
        /\ io' = 0
        /\ IF start < 2
           THEN pc' = "idle" /\ ret' = FAT32_ERROR_INVALID_PARAMETER
                  /\ rd' = rd
           ELSE pc' = "release" /\ ret' = FAT32_OK
                  /\ rd' = [cluster |-> start]
    /\ UNCHANGED <<card_present, blocks, fat32_initialised, statics, file,
                   dir, out>>

\* One iteration of the loop.
RlStep ==
    /\ pc = "release"
    /\ \E r \in {release_step(Globals, [CardDev EXCEPT !.n = io],
                              rd.cluster)} :
        /\ blocks' = r.dev.b
        /\ io' = r.dev.n
        /\ mon' = [mon EXCEPT
                     !.touched = IF r.dev.n > io THEN @ \cup {rd.cluster}
                                 ELSE @]
        /\ IF r.done
           THEN pc' = "idle" /\ ret' = r.err /\ rd' = <<>>
           ELSE pc' = "release" /\ ret' = ret /\ rd' = [cluster |-> r.next]
    /\ UNCHANGED <<card_present, fat32_initialised, statics, file, dir, op,
                   out>>

NextRelease ==
    \/ RlBegin
    \/ RlStep

SpecRelease == InitRelease /\ [][NextRelease]_vars

\* The loop is not held up: every iteration that can run does run.
FairRelease == SpecRelease /\ WF_vars(RlStep)

\* The clusters of the chain the FAT words fat link from cluster on: up to
\* the end of chain, to a link to a reserved entry (a freed entry links to
\* entry 0), or to a cluster met before.
RECURSIVE LinkedFrom(_, _, _)
LinkedFrom(fat, cluster, seen) ==
    IF cluster < 2 \/ cluster >= FAT32_FAT_ENTRY_EOC \/ cluster \in seen
       \/ cluster + 1 \notin DOMAIN fat
    THEN seen
    ELSE LinkedFrom(fat, fat[cluster + 1] % TopUnit, seen \cup {cluster})

\* While and after release_cluster_chain runs, the FAT entries that differ
\* from before the call are free and lie on the chain of its argument, and
\* no sector was read or written for entry 0 or 1; when it has returned
\* from a start cluster of the volume, the chain is free up to its first
\* free link.
ReleaseKept ==
    mon.calls > 0
        => /\ \A i \in DOMAIN FatWords :
                FatWords[i] # mon.fat0[i]
                    => /\ (i - 1) \in LinkedFrom(mon.fat0, mon.start, {})
                       /\ FatWords[i] % TopUnit = FAT32_FAT_ENTRY_FREE
           /\ mon.touched \cap {0, 1} = {}
           /\ mon.touched \subseteq LinkedFrom(mon.fat0, mon.start, {})
           /\ pc = "idle"
                => \A c \in LinkedFrom(mon.fat0, mon.start, {}) :
                       FatWords[c + 1] % TopUnit = FAT32_FAT_ENTRY_FREE

\* C35: release_cluster_chain returns for every content of the FAT, cyclic
\* and partly freed chains included; it frees nothing outside the chain of
\* its argument, goes no further than the first free link and never reads
\* or writes the FAT entries 0 and 1.
ReleaseTerminates ==
    /\ []ReleaseKept
    /\ (pc = "release") ~> (pc = "idle")

\* release_cluster_chain has returned from a chain that runs in a circle
\* through three clusters, all of them free now.
ReleaseTerminatesDone ==
    /\ pc = "idle" /\ mon.calls > 0
    /\ mon.start = 4
    /\ mon.fat0[5] = 5 /\ mon.fat0[6] = 6 /\ mon.fat0[7] = 4
    /\ mon.touched = {4, 5, 6}
    /\ \A c \in {4, 5, 6} : FatWords[c + 1] = FAT32_FAT_ENTRY_FREE

-----------------------------------------------------------------------------
(* Enumerating a root directory that holds the remains of deleted entries: *)
(* LFN slots, live or freed, free 8.3 slots, and live 8.3 slots whose      *)
(* checksum is the one the LFN slots carry.                                *)

\* The 8.3 name stored for Name13, and another 8.3 name with its checksum.
OrphanShort ==
    Str(<<"A", "B", "C", "D", "E", "F", "~", "1", " ", " ", " ">>)
OrphanTwin ==
    Str(<<"A", "B", "C", "D", "G", "E", "~", "1", " ", " ", " ">>)

\* The LFN slot of Name13 with first byte seq.
OrphanLfn(seq) ==
    Slot(seq, FAT32_ATTR_LONG_NAME, filename_to_lfn(Name13)[0],
         shortname_checksum(OrphanShort), 0, 0)

\* The slots a directory is made of: the LFN slot live and freed, the 8.3
\* slot live and freed, and the live 8.3 slot of the other name.
OrphanSlots ==
    {OrphanLfn(65), OrphanLfn(FAT32_DIR_ENTRY_FREE),
     ShortSlot(OrphanShort, FAT32_ATTR_ARCHIVE, 0, 0),
     [ShortSlot(OrphanShort, FAT32_ATTR_ARCHIVE, 0, 0)
        EXCEPT !.b0 = FAT32_DIR_ENTRY_FREE],
     ShortSlot(OrphanTwin, FAT32_ATTR_ARCHIVE, 0, 0)}

\* Slots in the root directory: one cluster of two sectors.
OrphanLen == 4

OrphanCards ==
    {Card(2, 0, ChainFat(<<2>>), <<2>>, root, <<>>, <<>>) :
        root \in [1..OrphanLen -> OrphanSlots]}

\* deleted: fat32_file_delete was called; ub: the last call wrote outside
\* the staging buffer.
InitOrphan ==
    /\ \E card \in OrphanCards : InitMounted(card)
    /\ mon = [deleted |-> FALSE, ub |-> FALSE]

OrFileDelete ==
    /\ ~mon.deleted
    /\ \E r \in {FileDeleteCall(InRoot(Name13))} :
        /\ Do("file_delete", InRoot(Name13), r)
        /\ mon' = [deleted |-> TRUE, ub |-> r.ub]

OrDirOpen ==
    /\ \E r \in {DirOpenCall(PathRoot)} :
        /\ Do("dir_open", PathRoot, r)
        /\ mon' = [mon EXCEPT !.ub = r.ub]

OrDirRead ==
    /\ dir.is_open
    /\ \E r \in {DirReadCall} :
        /\ Do("dir_read", 0, r)
        /\ mon' = [mon EXCEPT !.ub = r.ub]

NextOrphan ==
    \/ OrFileDelete
    \/ OrDirOpen
    \/ OrDirRead

SpecOrphan == InitOrphan /\ [][NextOrphan]_vars

\* The slot the last fat32_dir_read returned: the one before dir.position.
OrphanRead == dir.position \div FAT32_DIR_ENTRY_SIZE

\* Slot i of slots comes after a slot with first byte 0xE5 with no live
\* LFN slot between the two.
AfterFreeSlot(slots, i) ==
    \E j \in 1..(i - 1) :
        /\ slots[j].b0 = FAT32_DIR_ENTRY_FREE
        /\ \A k \in (j + 1)..(i - 1) :
              slots[k].attr # FAT32_ATTR_LONG_NAME

\* C36: fat32_dir_read discards the staged LFN fragments at a slot whose
\* first byte is 0xE5.  The filename it returns for a live 8.3 slot that
\* follows such a slot, with no LFN slot of its own, is that slot's 8.3
\* name, also when its checksum is the one the fragments carry.
OrphanDiscarded ==
    (op.name = "dir_read" /\ ret = FAT32_OK /\ out # <<>>
       /\ AfterFreeSlot(RootSlots, OrphanRead))
        => out = shortname_to_filename(RootSlots[OrphanRead].name)

-----------------------------------------------------------------------------
(* Allocation on volumes of every geometry: reserved sectors, FATs, FAT    *)
(* size and cluster size vary, the data region holds ClusterCount clusters *)
(* of which the last two are free.                                         *)

MaxGeomCalls == 3
MaxGeomClusters == 3

\* The boot sectors: total_sectors_32 is the reserved sectors, the FATs
\* and ClusterCount clusters.
GeomBoots ==
    {[Bpb(spc) EXCEPT !.reserved_sectors = res, !.num_fats = nf,
                      !.fat_size_32 = fs,
                      !.total_sectors_32 = res + nf * fs + ClusterCount * spc] :
        res \in 1..3, nf \in 1..2, fs \in 1..2, spc \in {1, 2}}

\* The FAT of such a volume: the root directory in cluster 2, every
\* cluster in use but the last two; the entries after the last cluster of
\* the volume are zero, as a formatter leaves them.
GeomFat == [c \in 2..(ClusterCount - 1) |-> FAT32_FAT_ENTRY_EOC]

\* The card of the volume of boot sector bs, without partition table.
GeomCard(bs) ==
    LET fats == bs.num_fats * bs.fat_size_32
    IN  [lba \in 0..(bs.total_sectors_32 - 1) |->
           IF lba = 0 THEN [k |-> "bpb", c |-> bs]
           ELSE IF lba < bs.reserved_sectors THEN ZeroRawSector
           ELSE IF lba < bs.reserved_sectors + fats
           THEN (IF (lba - bs.reserved_sectors) % bs.fat_size_32 = 0
                 THEN FatSector(GeomFat)
                 ELSE [k |-> "fat",
                       c |-> [i \in 1..FatEntriesPerSector |->
                                FAT32_FAT_ENTRY_FREE]])
           ELSE IF lba < bs.reserved_sectors + fats + bs.sectors_per_cluster
           THEN ZeroDirSector
           ELSE ZeroRawSector]

InitGeom ==
    /\ \E bs \in GeomBoots : InitMounted(GeomCard(bs))
    /\ mon = [calls |-> 0]

GeomDo(name, arg, r) ==
    /\ Do(name, arg, r)
    /\ mon' = [calls |-> mon.calls + 1]

GmFileCreate ==
    /\ mon.calls < MaxGeomCalls
    /\ GeomDo("file_create", InRoot(NameF), FileCreateCall(InRoot(NameF)))

GmFileWrite ==
    /\ mon.calls < MaxGeomCalls
    /\ file.is_open
    /\ \E k \in 1..MaxGeomClusters :
        GeomDo("file_write", k * bytes_per_cluster,
               FileWriteCall(Payload(k * bytes_per_cluster)))

GmDirCreate ==
    /\ mon.calls < MaxGeomCalls
    /\ GeomDo("dir_create", InRoot(NamePlus), DirCreateCall(InRoot(NamePlus)))

NextGeom ==
    \/ GmFileCreate
    \/ GmFileWrite
    \/ GmDirCreate

SpecGeom == InitGeom /\ [][NextGeom]_vars

\* C37: every cluster that cluster allocation hands out lies inside the
\* volume.  For every cluster c whose FAT entry is not free,
\* cluster_to_sector(c) + sectors_per_cluster <= total_sectors_32,
\* whatever the reserved-sector count, the number of FATs and the FAT size
\* of the mounted boot sector.
AllocatedInside ==
    fat32_mounted
        => \A c \in 2..(cluster_count + 1) :
              FatOf(Globals, blocks, c) # FAT32_FAT_ENTRY_FREE
                  => cluster_to_sector(Globals, c)
                       + boot_sector.sectors_per_cluster
                         <= boot_sector.total_sectors_32


\* C38: whenever the volume is not mounted after fat32_init, whatever
\* mounts (successful or failed), unmounts and card-detect callbacks came
\* before, volume_start_block, first_data_sector, cluster_count,
\* bytes_per_cluster and current_dir_cluster are zero: a failed mount
\* leaves no geometry behind.
UnmountedZero ==
    (fat32_initialised /\ ~fat32_mounted)
        => /\ volume_start_block = 0
           /\ first_data_sector = 0
           /\ cluster_count = 0
           /\ bytes_per_cluster = 0
           /\ current_dir_cluster = 0


\* Sector s of FAT copy n (from 0) of the mounted volume.
FatCopySector(n, s) ==
    blocks[volume_start_block + boot_sector.reserved_sectors
             + n * boot_sector.fat_size_32 + s]

\* C39: on a volume mounted with two identical FAT copies, the copies are
\* identical after every successful fat32_file_create, fat32_dir_create,
\* fat32_file_write, fat32_file_delete and fat32_dir_delete.
FatCopiesIdentical ==
    (fat32_mounted /\ boot_sector.num_fats = 2 /\ ret = FAT32_OK
       /\ op.name \in {"file_create", "dir_create", "file_write",
                       "file_delete", "dir_delete"})
        => \A s \in 0..(boot_sector.fat_size_32 - 1) :
               FatCopySector(0, s) = FatCopySector(1, s)

-----------------------------------------------------------------------------
(* clib.c: the descriptor table of _open and _close.  In this              *)
(* specification the variable file is the table files[], ret the int the   *)
(* call returned.                                                          *)

MAX_OPEN_FILES == 16

\* <fcntl.h> of the C library the firmware is built with.
O_APPEND == 8
O_CREAT == 512
O_TRUNC == 1024
O_EXCL == 2048

\* The bit that marks a descriptor of the table (clib.c:68).
FD_FLAG == 16384

\* fat32_file_open and fat32_file_create on the handle of slot i, with
\* their ready-check: what they leave of the statics, the device and the
\* handle.
slot_open(g, present, dev, f, path) ==
    IF path = <<>>
    THEN [err |-> FAT32_ERROR_INVALID_PARAMETER, g |-> g, dev |-> dev,
          file |-> f]
    ELSE IF Len(path) > FAT32_MAX_PATH_LEN
    THEN [err |-> FAT32_ERROR_INVALID_PATH, g |-> g, dev |-> dev, file |-> f]
    ELSE Let([rdy \in {fat32_is_ready(g, present, dev)}
         |-> IF ~rdy.ready
             THEN [err |-> rdy.g.mount_status, g |-> rdy.g, dev |-> rdy.dev,
                   file |-> f]
             ELSE Let([r \in {fat32_file_open(rdy.g, rdy.dev, path)}
                  |-> [err |-> r.err, g |-> rdy.g, dev |-> r.dev,
                       file |-> r.file]])])

slot_create(g, present, dev, f, path) ==
    Let([rdy \in {fat32_is_ready(g, present, dev)}
    |-> IF ~rdy.ready
        THEN [err |-> rdy.g.mount_status, g |-> rdy.g, dev |-> rdy.dev,
              file |-> f]
        ELSE Let([r \in {fat32_file_create(rdy.g, rdy.dev, path)}
             |-> [err |-> r.err, g |-> rdy.g, dev |-> r.dev,
                  file |-> r.file]])])

\* The loop of _open from slot i on (clib.c:30-71): fd is what _open
\* returns.
RECURSIVE clib_open_from(_, _, _, _, _, _, _)
clib_open_from(g, present, dev, files, filename, oflag, i) ==
    IF ~(i < MAX_OPEN_FILES)
    THEN [fd |-> -1, g |-> g, dev |-> dev, files |-> files]
    ELSE IF files[i].is_open
    THEN clib_open_from(g, present, dev, files, filename, oflag, i + 1)
    ELSE Let([o \in {slot_open(g, present, dev, files[i], filename)}
    |-> IF o.err # FAT32_OK
        THEN IF BitAnd(oflag, O_CREAT) # 0
             THEN Let([c \in {slot_create(o.g, present, o.dev, o.file,
                                          filename)}
                  |-> [fd |-> -1, g |-> c.g, dev |-> c.dev,
                       files |-> [files EXCEPT ![i] = c.file]]])
             ELSE [fd |-> -1, g |-> o.g, dev |-> o.dev,
                   files |-> [files EXCEPT ![i] = o.file]]
        ELSE IF BitAnd(oflag, O_CREAT + O_EXCL) = O_CREAT + O_EXCL
        THEN [fd |-> -1, g |-> o.g, dev |-> o.dev,
              files |-> [files EXCEPT ![i] = o.file]]
        ELSE [fd |-> i + FD_FLAG, g |-> o.g, dev |-> o.dev,
              files |->
                [files EXCEPT
                   ![i] = IF BitAnd(oflag, O_TRUNC) # 0
                          THEN [o.file EXCEPT !.file_size = 0,
                                              !.position = 0]
                          ELSE IF BitAnd(oflag, O_APPEND) # 0
                          THEN [o.file EXCEPT !.position = o.file.file_size]
                          ELSE o.file]]])

\* _open (clib.c:26-72); init() has nothing to do once the table is set
\* up.
clib_open(g, present, dev, files, filename, oflag) ==
    clib_open_from(g, present, dev, files, filename, oflag, 0)

\* _close (clib.c:74-95).  `fd & 0x4000 == 0` is `fd & (0x4000 == 0)`,
\* that is 0: the first test never returns.  fd &= ~0x4000 clears the bit,
\* of a negative fd too.
clib_close(files, fd) ==
    LET slot == IF fd < 0 THEN fd
                ELSE IF (fd \div FD_FLAG) % 2 = 1 THEN fd - FD_FLAG ELSE fd
    IN  IF slot < 0 \/ slot >= MAX_OPEN_FILES
        THEN [fd |-> -1, files |-> files]
        ELSE IF ~files[slot].is_open THEN [fd |-> -1, files |-> files]
        ELSE [fd |-> 0,
              files |-> [files EXCEPT ![slot] = fat32_file_close(@)]]

MaxClibCalls == 3

\* The files _open is called for: /old.bin exists, /f.txt does not.
ClibPaths == {PathOld, InRoot(NameF)}

ClibFlags ==
    {0, O_CREAT, O_CREAT + O_EXCL, O_TRUNC, O_APPEND, O_CREAT + O_TRUNC}

\* The descriptors _close is called with: of the first two slots and the
\* last, the value of a failed _open, and numbers that are no descriptor.
ClibFds == {-1, 0, FD_FLAG, FD_FLAG + 1, FD_FLAG + MAX_OPEN_FILES - 1,
            FD_FLAG + MAX_OPEN_FILES}

\* The table after _open("/old.bin", 0) was called k times on card.
ClibTable(card, k) ==
    [i \in 0..(MAX_OPEN_FILES - 1) |->
        IF i < k
        THEN fat32_file_open(MountedOn(card), Dev(card), PathOld).file
        ELSE ZeroFile]

OpenSlots(files) == {i \in DOMAIN files : files[i].is_open}

\* held: the descriptors _open returned that were not closed since;
\* open0: the open slots and names0 the 8.3 names of the root directory
\* before the last call.
InitClib ==
    /\ card_present = TRUE
    /\ blocks = FileCard(2, 0)
    /\ fat32_initialised = TRUE
    /\ fat32_mounted = MountedOn(blocks).fat32_mounted
    /\ mount_status = MountedOn(blocks).mount_status
    /\ boot_sector = MountedOn(blocks).boot_sector
    /\ volume_start_block = MountedOn(blocks).volume_start_block
    /\ first_data_sector = MountedOn(blocks).first_data_sector
    /\ data_region_sectors = MountedOn(blocks).data_region_sectors
    /\ cluster_count = MountedOn(blocks).cluster_count
    /\ bytes_per_cluster = MountedOn(blocks).bytes_per_cluster
    /\ current_dir_cluster = MountedOn(blocks).current_dir_cluster
    /\ \E k \in {0, MAX_OPEN_FILES - 1} :
        /\ file = ClibTable(blocks, k)
        /\ mon = [calls |-> 0, held |-> {i + FD_FLAG : i \in 0..(k - 1)},
                  open0 |-> 0..(k - 1), names0 |-> RootShortnames]
    /\ dir = ZeroDir
    /\ op = [name |-> "none", arg |-> 0]
    /\ ret = 0
    /\ out = <<>>
    /\ io = 0
    /\ pc = "idle"
    /\ rd = <<>>

ClOpen ==
    /\ mon.calls < MaxClibCalls
    /\ \E path \in ClibPaths, oflag \in ClibFlags :
        \E r \in {clib_open(Globals, card_present, CardDev, file, path,
                            oflag)} :
            /\ SetGlobals(r.g)
            /\ blocks' = r.dev.b
            /\ file' = r.files
            /\ op' = [name |-> "_open", arg |-> <<path, oflag>>]
            /\ ret' = r.fd
            /\ io' = r.dev.n
            /\ mon' = [calls |-> mon.calls + 1,
                       held |-> IF r.fd = -1 THEN mon.held
                                ELSE mon.held \cup {r.fd},
                       open0 |-> OpenSlots(file),
                       names0 |-> RootShortnames]
    /\ UNCHANGED <<card_present, fat32_initialised, dir, out, pc, rd>>

ClClose ==
    /\ mon.calls < MaxClibCalls
    /\ \E fd \in ClibFds :
        \E r \in {clib_close(file, fd)} :
            /\ file' = r.files
            /\ op' = [name |-> "_close", arg |-> fd]
            /\ ret' = r.fd
            /\ mon' = [calls |-> mon.calls + 1,
                       held |-> IF r.fd = 0
                                THEN mon.held \ {fd, fd + FD_FLAG}
                                ELSE mon.held,
                       open0 |-> OpenSlots(file),
                       names0 |-> RootShortnames]
    /\ UNCHANGED <<card_present, blocks, fat32_initialised, statics, dir,
                   out, io, pc, rd>>

NextClib ==
    \/ ClOpen
    \/ ClClose

SpecClib == InitClib /\ [][NextClib]_vars

\* C40: the descriptor table never leaks a slot.  A slot is open only if
\* _open returned its descriptor and the descriptor was not closed since;
\* an _open that returns -1 leaves the open slots as they were, an O_CREAT
\* open of a file that did not exist included; and an _open that created
\* the file returns its descriptor.
NoSlotLeak ==
    /\ \A i \in OpenSlots(file) : (i + FD_FLAG) \in mon.held
    /\ (op.name = "_open" /\ ret = -1) => OpenSlots(file) = mon.open0
    /\ (op.name = "_open" /\ RootShortnames # mon.names0) => ret # -1

====
